---- MODULE Spec2Model ----
(***************************************************************************)
(* Model of the KanbanBoard component (src/unnamed/part_003, the board     *)
(* with its filter pipeline and its drag handlers) together with the host  *)
(* that owns the tasks collection.                                         *)
(*                                                                         *)
(* Strings that the code only compares are TLA+ strings.  Strings that the *)
(* code searches (title, description, search text, and the characters of   *)
(* an id) are tuples of one-character strings, so that toLowerCase and     *)
(* includes are computed character by character.                           *)
(***************************************************************************)
EXTENDS Naturals, Sequences, FiniteSets

VARIABLES
    tasks,            \* prop tasks: the host's collection, as last rendered
    hasOnTaskMove,    \* prop onTaskMove is supplied
    customColumns,    \* prop columns: [given, value], value the list of column ids
    enableSearch,     \* prop enableSearch
    enableFilters,    \* prop enableFilters
    activeTask,       \* useState activeTask
    selectedTask,     \* useState selectedTask
    searchQuery,      \* useState searchQuery
    filterPriority,   \* useState filterPriority
    filterType,       \* useState filterType
    filterAssignee,   \* useState filterAssignee
    viewMode,         \* useState viewMode
    dragging,         \* DndContext: id of the card being dragged, or NoDrag
    pendingMoves,     \* onTaskMove promises awaited by handleDragEnd, not yet settled
    out,              \* host callbacks invoked by the last step
    logged,           \* console.error and alert messages of the last step
    lastEvent,        \* history: the event the last step handled
    hasOnTaskCreate,  \* prop onTaskCreate is supplied
    hasOnTaskUpdate,  \* prop onTaskUpdate is supplied
    hasOnTaskDelete,  \* prop onTaskDelete is supplied
    enableCreateTask, \* prop enableCreateTask
    hasRenderTaskCard, \* prop renderTaskCard is supplied
    hasRenderHeader,  \* prop renderHeader is supplied
    isAddTaskModalOpen, \* useState isAddTaskModalOpen
    addTaskStatus,    \* useState addTaskStatus
    title,            \* AddTaskModal useState title, while the form is mounted
    editedTask,       \* TaskModal useState editedTask, while the view is mounted
    pendingUpdates,   \* tasks of the onTaskUpdate promises not yet settled
    pendingCalls,     \* onTaskCreate / onTaskDelete promises not yet settled
    isEditing,        \* TaskModal useState isEditing, while the view is mounted
    newComment,       \* TaskModal useState newComment, while the view is mounted
    requests,         \* useTasksWithRestAPI: moveTask calls awaiting their fetch
    settled,          \* history: the moveTask calls that have completed, in order
    hostError,        \* useTasksWithRestAPI useState error
    loading           \* useTasksWithRestAPI useState loading

propVars  == <<hasOnTaskMove, customColumns, enableSearch, enableFilters>>
filterVars == <<searchQuery, filterPriority, filterType, filterAssignee>>
crudProps == <<hasOnTaskCreate, hasOnTaskUpdate, hasOnTaskDelete, enableCreateTask,
               hasRenderTaskCard, hasRenderHeader>>
modalVars == <<isAddTaskModalOpen, addTaskStatus, title, editedTask, pendingUpdates,
               pendingCalls>>
viewVars == <<isEditing, newComment>>
restVars == <<requests, settled, hostError, loading>>
vars == <<tasks, hasOnTaskMove, customColumns, enableSearch, enableFilters,
          activeTask, selectedTask, searchQuery, filterPriority, filterType,
          filterAssignee, viewMode, dragging, pendingMoves, out, logged,
          lastEvent, hasOnTaskCreate, hasOnTaskUpdate, hasOnTaskDelete,
          enableCreateTask, hasRenderTaskCard, hasRenderHeader,
          isAddTaskModalOpen, addTaskStatus, title, editedTask, pendingUpdates,
          pendingCalls, isEditing, newComment, requests, settled, hostError,
          loading>>

(***************************************************************************)
(* Values                                                                  *)
(***************************************************************************)
\* JavaScript undefined: an absent optional string field.
Undefined == "<undefined>"
\* No card is being dragged.
NoDrag == "<nodrag>"
\* event.over is null: the drop has no target.
NoOver == "<noover>"

\* type Status
Statuses == {"todo", "in-progress", "in-review", "done"}
\* type Priority
Priorities == {"lowest", "low", "medium", "high", "highest"}
\* type IssueType
IssueTypes == {"task", "bug", "story", "epic"}

\* const columns: the default four columns, in display order.
columns == <<"todo", "in-progress", "in-review", "done">>

\* const validStatuses in handleDragEnd.
validStatuses == <<"todo", "in-progress", "in-review", "done">>

\* The keys of the literal that tasksByStatus starts from.
groupedKeys == <<"todo", "in-progress", "in-review", "done">>

Range(s) == {s[i] : i \in 1..Len(s)}

(***************************************************************************)
(* Strings as character tuples                                             *)
(***************************************************************************)
\* String.prototype.toLowerCase, one character.
ToLowerCaseChar(c) ==
    CASE c = "A" -> "a"
      [] c = "B" -> "b"
      [] c = "G" -> "g"
      [] c = "T" -> "t"
      [] c = "U" -> "u"
      [] OTHER -> c

\* String.prototype.toLowerCase.
ToLowerCase(s) == [i \in 1..Len(s) |-> ToLowerCaseChar(s[i])]

\* String.prototype.includes: sub occurs in s as a contiguous run.
Includes(s, sub) ==
    \E k \in 0..Len(s) :
        /\ k + Len(sub) <= Len(s)
        /\ \A i \in 1..Len(sub) : s[k + i] = sub[i]

\* The characters of a task id.
IdChars(id) ==
    CASE id = "t1" -> <<"t", "1">>
      [] id = "T2" -> <<"T", "2">>
      [] id = "done" -> <<"d", "o", "n", "e">>
      [] id = "bug" -> <<"b", "u", "g">>
      [] id = "task-1" -> <<"t", "a", "s", "k", "-", "1">>
      [] OTHER -> <<>>

(***************************************************************************)
(* Derived view: assignee options, filtered list, grouping                 *)
(***************************************************************************)
\* JavaScript truthiness of an optional string: undefined and '' are falsy.
Truthy(v) == v # Undefined /\ v # ""

\* Array.prototype.find by id: the index of the first task with that id, 0 if none.
FindIndex(ts, id) ==
    IF \E i \in 1..Len(ts) : ts[i].id = id
    THEN CHOOSE i \in 1..Len(ts) :
            /\ ts[i].id = id
            /\ \A j \in 1..(i - 1) : ts[j].id # id
    ELSE 0

\* tasks.find((t) => t.id === id), as <<task>> or <<>> (undefined).
Find(ts, id) == IF FindIndex(ts, id) = 0 THEN <<>> ELSE <<ts[FindIndex(ts, id)]>>

\* Mutant: every truthy assignee is listed, repeated or not.
RECURSIVE UniqueAssignees_NoDedup(_, _)
UniqueAssignees_NoDedup(ts, seen) ==
    IF ts = <<>> THEN seen
    ELSE IF Truthy(Head(ts).assignee)
         THEN UniqueAssignees_NoDedup(Tail(ts), Append(seen, Head(ts).assignee))
         ELSE UniqueAssignees_NoDedup(Tail(ts), seen)

\* new Set(tasks.map((t) => t.assignee).filter(Boolean)), as Array.from lists
\* it: the truthy assignees in order of first occurrence.
RECURSIVE UniqueAssignees(_, _)
UniqueAssignees(ts, seen) ==
    IF ts = <<>> THEN seen
    ELSE IF Truthy(Head(ts).assignee) /\ Head(ts).assignee \notin Range(seen)
         THEN UniqueAssignees(Tail(ts), Append(seen, Head(ts).assignee))
         ELSE UniqueAssignees(Tail(ts), seen)

\* const assignees
assignees == UniqueAssignees(tasks, <<>>)

\* Mutant: the search text is compared without lower-casing it.
MatchesSearch_QueryNotLowered(task, query, searchOn) ==
    \/ ~searchOn
    \/ Includes(ToLowerCase(task.title), query)
    \/ Includes(ToLowerCase(task.description), query)
    \/ Includes(ToLowerCase(IdChars(task.id)), query)

\* const matchesSearch
MatchesSearch(task, query, searchOn) ==
    \/ ~searchOn
    \/ Includes(ToLowerCase(task.title), ToLowerCase(query))
    \/ Includes(ToLowerCase(task.description), ToLowerCase(query))
    \/ Includes(ToLowerCase(IdChars(task.id)), ToLowerCase(query))

\* Mutant: the priority selection applies although filters are disabled.
MatchesPriority_IgnoresFlag(task, fp, filtersOn) ==
    fp = "all" \/ task.priority = fp

\* const matchesPriority
MatchesPriority(task, fp, filtersOn) ==
    ~filtersOn \/ fp = "all" \/ task.priority = fp

\* const matchesType
MatchesType(task, ft, filtersOn) ==
    ~filtersOn \/ ft = "all" \/ task.type = ft

\* const matchesAssignee
MatchesAssignee(task, fa, filtersOn) ==
    \/ ~filtersOn
    \/ fa = "all"
    \/ (fa = "unassigned" /\ ~Truthy(task.assignee))
    \/ task.assignee = fa

\* Mutant: the type selection is left out of the conjunction.
PassesFilter_SkipsType(task, query, fp, ft, fa, searchOn, filtersOn) ==
    /\ MatchesSearch(task, query, searchOn)
    /\ MatchesPriority(task, fp, filtersOn)
    /\ MatchesAssignee(task, fa, filtersOn)

\* The callback of tasks.filter in filteredTasks.
PassesFilter(task, query, fp, ft, fa, searchOn, filtersOn) ==
    /\ MatchesSearch(task, query, searchOn)
    /\ MatchesPriority(task, fp, filtersOn)
    /\ MatchesType(task, ft, filtersOn)
    /\ MatchesAssignee(task, fa, filtersOn)

\* Array.prototype.filter: the elements that pass, in input order.
RECURSIVE FilterSeq(_, _, _, _, _, _, _)
FilterSeq(ts, query, fp, ft, fa, searchOn, filtersOn) ==
    IF ts = <<>> THEN <<>>
    ELSE LET rest == FilterSeq(Tail(ts), query, fp, ft, fa, searchOn, filtersOn)
         IN  IF PassesFilter(Head(ts), query, fp, ft, fa, searchOn, filtersOn)
             THEN <<Head(ts)>> \o rest
             ELSE rest

\* const filteredTasks, of the current props and state.
filteredTasks ==
    FilterSeq(tasks, searchQuery, filterPriority, filterType, filterAssignee,
              enableSearch, enableFilters)

\* filteredTasks.forEach: push each task onto the group of its status, when
\* the literal has that key.
RECURSIVE GroupInto(_, _)
GroupInto(grouped, ts) ==
    IF ts = <<>> THEN grouped
    ELSE LET t == Head(ts)
         IN  IF t.status \in DOMAIN grouped
             THEN GroupInto([grouped EXCEPT ![t.status] = Append(@, t)], Tail(ts))
             ELSE GroupInto(grouped, Tail(ts))

\* Mutant: the grouping is computed from the whole collection.
TasksByStatus_Unfiltered(filtered) ==
    GroupInto([k \in Range(groupedKeys) |-> <<>>], tasks)

\* const tasksByStatus, as a function of the filtered list.
TasksByStatus(filtered) ==
    GroupInto([k \in Range(groupedKeys) |-> <<>>], filtered)

tasksByStatus == TasksByStatus(filteredTasks)

\* const boardColumns = customColumns || columns
boardColumns == IF customColumns.given THEN customColumns.value ELSE columns

\* tasksByStatus[column.id] || []: the cards a column shows.
ColumnTasks(c) ==
    IF c \in DOMAIN tasksByStatus THEN tasksByStatus[c] ELSE <<>>

\* The ids of the cards on the board (every column's cards).
CardIds ==
    {t.id : t \in UNION {Range(ColumnTasks(c)) : c \in Range(boardColumns)}}

(***************************************************************************)
(* Bounds and the collections the model draws from                         *)
(***************************************************************************)
\* At most this many onTaskMove promises are pending at once.
MaxPending == 2

\* The ids of the host's tasks in the drag specification.  "done" is a task id
\* that is also a column id.
PoolIds == {"t1", "done"}

\* The ids of the tasks the derived-view specification draws collections from.
ViewIds == {"t1", "T2", "done", "bug"}

\* The host's task with a given id and status (the other fields are fixed).
PoolTask(id, st) ==
    CASE id = "t1" ->
            [id |-> "t1", title |-> <<"B", "u", "g">>, description |-> <<>>,
             status |-> st, priority |-> "high", type |-> "bug",
             assignee |-> "ann", comments |-> <<>>]
      [] id = "T2" ->
            [id |-> "T2", title |-> <<"a", "b">>, description |-> <<"b", "U", "G">>,
             status |-> st, priority |-> "low", type |-> "task",
             assignee |-> Undefined, comments |-> <<>>]
      [] id = "bug" ->
            [id |-> "bug", title |-> <<"T">>, description |-> <<"a">>,
             status |-> st, priority |-> "medium", type |-> "story",
             assignee |-> "unassigned", comments |-> <<>>]
      [] OTHER ->
            [id |-> id, title |-> <<"a">>, description |-> <<>>,
             status |-> st, priority |-> "high", type |-> "task",
             assignee |-> "", comments |-> <<>>]

\* What a drop can be over: a column, a card, something that is neither, nothing.
OverIds == Statuses \cup PoolIds \cup {"zz", NoOver}

\* How the host's callback ends: it returns undefined, it throws, or it
\* returns a promise that settles later.
Behaviours == {"returns", "throws", "promise"}

NoEvent == [op |-> "none", active |-> NoDrag, over |-> NoOver, captured |-> <<>>]

(***************************************************************************)
(* What the host does to its collection                                    *)
(***************************************************************************)
\* setTasks(prev => prev.map(t => t.id === id ? { ...t, status } : t))
SetStatus(ts, id, st) ==
    [i \in 1..Len(ts) |-> IF ts[i].id = id THEN [ts[i] EXCEPT !.status = st] ELSE ts[i]]

\* setTasks(prev => prev.filter(t => t.id !== id))
RemoveTask(ts, id) == SelectSeq(ts, LAMBDA t : t.id # id)

(***************************************************************************)
(* Drag interaction controller                                             *)
(***************************************************************************)
\* Mutant: the dropped-on card is looked up among the filtered tasks.
ResolveNewStatus_FilteredLookup(ts, overId) ==
    IF overId \in Range(validStatuses)
    THEN overId
    ELSE IF Find(filteredTasks, overId) = <<>>
         THEN Undefined
         ELSE Find(filteredTasks, overId)[1].status

\* Mutant: the task lookup comes first, the column check second.
ResolveNewStatus_TaskFirst(ts, overId) ==
    IF Find(ts, overId) # <<>>
    THEN Find(ts, overId)[1].status
    ELSE IF overId \in Range(validStatuses) THEN overId ELSE Undefined

\* Mutant: a target that is no task is taken for a status unchecked.
ResolveNewStatus_Unchecked(ts, overId) ==
    IF Find(ts, overId) = <<>> THEN overId ELSE Find(ts, overId)[1].status

\* handleDragEnd, lines 333-344: the status the drop target stands for, or
\* Undefined when the target is neither a status nor a task.
ResolveNewStatus(ts, overId) ==
    IF overId \in Range(validStatuses)
    THEN overId
    ELSE IF Find(ts, overId) = <<>>
         THEN Undefined
         ELSE Find(ts, overId)[1].status

\* Mutant: the same-column check is missing.
DragEndCalls_NoSameColumnCheck(ts, activeId, overId, provided) ==
    IF overId = NoOver THEN <<>>
    ELSE IF Find(ts, activeId) = <<>> THEN <<>>
    ELSE LET task == Find(ts, activeId)[1]
             newStatus == ResolveNewStatus(ts, overId)
         IN  IF newStatus = Undefined THEN <<>>
             ELSE IF provided
                  THEN <<[cb |-> "onTaskMove", taskId |-> activeId,
                          newStatus |-> newStatus, oldStatus |-> task.status]>>
                  ELSE <<>>

\* Mutant: oldStatus is read from the task captured at drag start.
DragEndCalls_CapturedOldStatus(ts, activeId, overId, provided) ==
    IF overId = NoOver THEN <<>>
    ELSE IF Find(ts, activeId) = <<>> THEN <<>>
    ELSE LET task == Find(ts, activeId)[1]
             newStatus == ResolveNewStatus(ts, overId)
         IN  IF newStatus = Undefined THEN <<>>
             ELSE IF task.status = newStatus THEN <<>>
             ELSE IF provided
                  THEN <<[cb |-> "onTaskMove", taskId |-> activeId,
                          newStatus |-> newStatus,
                          oldStatus |-> IF activeTask = <<>> THEN task.status
                                        ELSE activeTask[1].status]>>
                  ELSE <<>>

\* Mutant: a drop is ignored while an earlier move is still pending.
DragEndCalls_Serialized(ts, activeId, overId, provided) ==
    IF overId = NoOver \/ pendingMoves > 0 THEN <<>>
    ELSE IF Find(ts, activeId) = <<>> THEN <<>>
    ELSE LET task == Find(ts, activeId)[1]
             newStatus == ResolveNewStatus(ts, overId)
         IN  IF newStatus = Undefined THEN <<>>
             ELSE IF task.status = newStatus THEN <<>>
             ELSE IF provided
                  THEN <<[cb |-> "onTaskMove", taskId |-> activeId,
                          newStatus |-> newStatus, oldStatus |-> task.status]>>
                  ELSE <<>>

\* Mutant: onTaskMove is called without testing that it was supplied.
DragEndCalls_IgnoresProvided(ts, activeId, overId, provided) ==
    IF overId = NoOver THEN <<>>
    ELSE IF Find(ts, activeId) = <<>> THEN <<>>
    ELSE LET task == Find(ts, activeId)[1]
             newStatus == ResolveNewStatus(ts, overId)
         IN  IF newStatus = Undefined THEN <<>>
             ELSE IF task.status = newStatus THEN <<>>
             ELSE <<[cb |-> "onTaskMove", taskId |-> activeId,
                     newStatus |-> newStatus, oldStatus |-> task.status]>>

\* Mutant: a dragged task that is no longer in the collection is taken from
\* the task captured at drag start.
DragEndCalls_FallsBackToCaptured(ts, activeId, overId, provided) ==
    IF overId = NoOver THEN <<>>
    ELSE IF Find(ts, activeId) = <<>> /\ activeTask = <<>> THEN <<>>
    ELSE LET task == IF Find(ts, activeId) = <<>> THEN activeTask[1]
                     ELSE Find(ts, activeId)[1]
             newStatus == ResolveNewStatus(ts, overId)
         IN  IF newStatus = Undefined THEN <<>>
             ELSE IF task.status = newStatus THEN <<>>
             ELSE IF provided
                  THEN <<[cb |-> "onTaskMove", taskId |-> activeId,
                          newStatus |-> newStatus, oldStatus |-> task.status]>>
                  ELSE <<>>

\* handleDragEnd: the host callbacks the handler invokes, in order.
DragEndCalls(ts, activeId, overId, provided) ==
    IF overId = NoOver THEN <<>>
    ELSE IF Find(ts, activeId) = <<>> THEN <<>>
    ELSE LET task == Find(ts, activeId)[1]
             newStatus == ResolveNewStatus(ts, overId)
         IN  IF newStatus = Undefined THEN <<>>
             ELSE IF task.status = newStatus THEN <<>>
             ELSE IF provided
                  THEN <<[cb |-> "onTaskMove", taskId |-> activeId,
                          newStatus |-> newStatus, oldStatus |-> task.status]>>
                  ELSE <<>>

\* handleDragEnd's catch block: what it writes to the console.
MoveFailureLog == <<"Error moving task:">>

\* Mutant: the dragged card is looked up among the filtered tasks.
HandleDragStart_FilteredLookup(a) ==
    /\ dragging = NoDrag
    /\ viewMode = "board"
    /\ selectedTask = <<>>
    /\ dragging' = a
    /\ activeTask' = Find(filteredTasks, a)
    /\ out' = <<>>
    /\ logged' = <<>>
    /\ lastEvent' = [op |-> "dragStart", active |-> a, over |-> NoOver,
                     captured |-> <<>>]
    /\ UNCHANGED <<restVars, viewVars, crudProps, modalVars, tasks, propVars, selectedTask, filterVars, viewMode, pendingMoves>>

\* handleDragStart
HandleDragStart(a) ==
    /\ dragging = NoDrag
    /\ viewMode = "board"
    /\ selectedTask = <<>>
    /\ dragging' = a
    /\ activeTask' = Find(tasks, a)
    /\ out' = <<>>
    /\ logged' = <<>>
    /\ lastEvent' = [op |-> "dragStart", active |-> a, over |-> NoOver,
                     captured |-> <<>>]
    /\ UNCHANGED <<restVars, viewVars, crudProps, modalVars, tasks, propVars, selectedTask, filterVars, viewMode, pendingMoves>>

\* Mutant: the handler also applies the move to the collection itself.
HandleDragEnd_OptimisticUpdate(o, b) ==
    /\ dragging # NoDrag
    /\ LET calls == DragEndCalls(tasks, dragging, o, hasOnTaskMove)
       IN  /\ calls = <<>> => b = "returns"
           /\ b = "promise" => pendingMoves < MaxPending
           /\ activeTask' = <<>>
           /\ out' = calls
           /\ logged' = IF b = "throws" THEN MoveFailureLog ELSE <<>>
           /\ pendingMoves' = IF b = "promise" THEN pendingMoves + 1 ELSE pendingMoves
           /\ tasks' = IF calls = <<>> THEN tasks
                       ELSE SetStatus(tasks, dragging, calls[1].newStatus)
    /\ dragging' = NoDrag
    /\ lastEvent' = [op |-> "dragEnd", active |-> dragging, over |-> o,
                     captured |-> activeTask]
    /\ UNCHANGED <<restVars, viewVars, crudProps, modalVars, propVars, selectedTask, filterVars, viewMode>>

\* handleDragEnd, up to its await: o is event.over, b is how onTaskMove ends.
HandleDragEnd(o, b) ==
    /\ dragging # NoDrag
    /\ LET calls == DragEndCalls(tasks, dragging, o, hasOnTaskMove)
       IN  /\ calls = <<>> => b = "returns"
           /\ b = "promise" => pendingMoves < MaxPending
           /\ activeTask' = <<>>
           /\ out' = calls
           /\ logged' = IF b = "throws" THEN MoveFailureLog ELSE <<>>
           /\ pendingMoves' = IF b = "promise" THEN pendingMoves + 1 ELSE pendingMoves
    /\ dragging' = NoDrag
    /\ lastEvent' = [op |-> "dragEnd", active |-> dragging, over |-> o,
                     captured |-> activeTask]
    /\ UNCHANGED <<restVars, viewVars, crudProps, modalVars, tasks, propVars, selectedTask, filterVars, viewMode>>

\* DndContext ends the drag without a drop (its sensor cancels on Escape, on
\* a window resize, when the page is hidden) and reports it through
\* onDragCancel; the board passes onDragStart and onDragEnd only, so none of
\* its handlers runs.
DragCancel ==
    /\ dragging # NoDrag
    /\ dragging' = NoDrag
    /\ out' = <<>>
    /\ logged' = <<>>
    /\ lastEvent' = [op |-> "dragCancel", active |-> dragging, over |-> NoOver,
                     captured |-> activeTask]
    /\ UNCHANGED <<restVars, viewVars, crudProps, modalVars, tasks, propVars, activeTask, selectedTask,
                   filterVars, viewMode, pendingMoves>>

\* handleDragEnd after its await: the promise onTaskMove returned is fulfilled.
MoveResolved ==
    /\ pendingMoves > 0
    /\ pendingMoves' = pendingMoves - 1
    /\ out' = <<>>
    /\ logged' = <<>>
    /\ lastEvent' = [NoEvent EXCEPT !.op = "moveResolved"]
    /\ UNCHANGED <<restVars, viewVars, crudProps, modalVars, tasks, propVars, activeTask, selectedTask, filterVars, viewMode,
                   dragging>>

\* Mutant: the catch block resets the board's filters and search.
MoveRejected_ResetsView ==
    /\ pendingMoves > 0
    /\ pendingMoves' = pendingMoves - 1
    /\ out' = <<>>
    /\ logged' = MoveFailureLog
    /\ lastEvent' = [NoEvent EXCEPT !.op = "moveRejected"]
    /\ searchQuery' = <<>>
    /\ filterPriority' = "all"
    /\ filterType' = "all"
    /\ filterAssignee' = "all"
    /\ UNCHANGED <<restVars, viewVars, crudProps, modalVars, tasks, propVars, activeTask, selectedTask, viewMode, dragging>>

\* handleDragEnd after its await: the promise is rejected, the catch block runs.
MoveRejected ==
    /\ pendingMoves > 0
    /\ pendingMoves' = pendingMoves - 1
    /\ out' = <<>>
    /\ logged' = MoveFailureLog
    /\ lastEvent' = [NoEvent EXCEPT !.op = "moveRejected"]
    /\ UNCHANGED <<restVars, viewVars, crudProps, modalVars, tasks, propVars, activeTask, selectedTask, filterVars, viewMode,
                   dragging>>

(***************************************************************************)
(* Other user actions on the board                                         *)
(***************************************************************************)
\* The tasks a click can land on: the cards of the board, or the rows of the list.
ClickableTasks ==
    IF viewMode = "board"
    THEN UNION {Range(ColumnTasks(c)) : c \in Range(boardColumns)}
    ELSE Range(filteredTasks)

\* handleTaskClick; the task view mounts with editedTask = useState(task).
HandleTaskClick(t) ==
    /\ dragging = NoDrag
    /\ selectedTask = <<>>
    /\ t \in ClickableTasks
    /\ selectedTask' = <<t>>
    /\ editedTask' = <<t>>
    /\ out' = <<>> /\ logged' = <<>>
    /\ lastEvent' = [NoEvent EXCEPT !.op = "taskClick"]
    /\ UNCHANGED <<restVars, viewVars, crudProps, isAddTaskModalOpen, addTaskStatus, title, pendingUpdates,
                   pendingCalls, tasks, propVars, activeTask, filterVars, viewMode,
                   dragging, pendingMoves>>

\* TaskModal onClose: () => setSelectedTask(null); the task view unmounts
\* and its state is gone.
CloseTaskModal ==
    /\ selectedTask # <<>>
    /\ selectedTask' = <<>>
    /\ editedTask' = <<>>
    /\ isEditing' = FALSE
    /\ newComment' = <<>>
    /\ out' = <<>> /\ logged' = <<>>
    /\ lastEvent' = [NoEvent EXCEPT !.op = "closeTaskModal"]
    /\ UNCHANGED <<restVars, crudProps, isAddTaskModalOpen, addTaskStatus, title, pendingUpdates,
                   pendingCalls, tasks, propVars, activeTask, filterVars, viewMode,
                   dragging, pendingMoves>>

\* The view toggle: setViewMode('board') / setViewMode('list').  Its buttons
\* stay rendered and enabled under an open task view (the keyboard reaches
\* them), so the toggle has no guard on selectedTask.
SetViewMode(m) ==
    /\ dragging = NoDrag
    /\ viewMode # m
    /\ viewMode' = m
    /\ out' = <<>> /\ logged' = <<>> /\ lastEvent' = NoEvent
    /\ UNCHANGED <<restVars, viewVars, crudProps, modalVars, tasks, propVars, activeTask, selectedTask, filterVars, dragging,
                   pendingMoves>>

(***************************************************************************)
(* The host: it alone changes the tasks prop                               *)
(***************************************************************************)
HostSetStatus(id, st) ==
    /\ Find(tasks, id) # <<>>
    /\ Find(tasks, id)[1].status # st
    /\ tasks' = SetStatus(tasks, id, st)
    /\ out' = <<>> /\ logged' = <<>> /\ lastEvent' = NoEvent
    /\ UNCHANGED <<restVars, viewVars, crudProps, modalVars, propVars, activeTask, selectedTask, filterVars, viewMode, dragging,
                   pendingMoves>>

HostRemove(id) ==
    /\ Find(tasks, id) # <<>>
    /\ tasks' = RemoveTask(tasks, id)
    /\ out' = <<>> /\ logged' = <<>> /\ lastEvent' = NoEvent
    /\ UNCHANGED <<restVars, viewVars, crudProps, modalVars, propVars, activeTask, selectedTask, filterVars, viewMode, dragging,
                   pendingMoves>>

(***************************************************************************)
(* Specification of the board with its host                                *)
(***************************************************************************)
\* The board as mounted with every callback supplied, the flags at their
\* defaults, no render override, and no modal open.
InitModals ==
    /\ hasOnTaskCreate = TRUE
    /\ hasOnTaskUpdate = TRUE
    /\ hasOnTaskDelete = TRUE
    /\ enableCreateTask = TRUE
    /\ hasRenderTaskCard = FALSE
    /\ hasRenderHeader = FALSE
    /\ isAddTaskModalOpen = FALSE
    /\ addTaskStatus = "todo"
    /\ title = <<>>
    /\ editedTask = <<>>
    /\ pendingUpdates = <<>>
    /\ pendingCalls = <<>>
    /\ isEditing = FALSE
    /\ newComment = <<>>
    /\ requests = <<>>
    /\ settled = <<>>
    /\ hostError = Undefined
    /\ loading = FALSE

InitTasks ==
    <<PoolTask("t1", "todo"), PoolTask("done", "in-progress")>>

\* The filter states the board starts from: nothing selected, or narrowed so
\* that the task with id "done" shows and t1 is hidden.
InitFilters ==
    {<< <<>>, "all", "all", "all" >>, << <<"A">>, "high", "task", "unassigned" >>}

\* The columns prop: omitted, or two of the four columns.
ColumnsProps ==
    {[given |-> FALSE, value |-> <<>>], [given |-> TRUE, value |-> <<"todo", "done">>]}

Init ==
    /\ tasks = InitTasks
    /\ hasOnTaskMove \in BOOLEAN
    /\ customColumns \in ColumnsProps
    /\ enableSearch = TRUE
    /\ enableFilters = TRUE
    /\ activeTask = <<>>
    /\ selectedTask = <<>>
    /\ \E f \in InitFilters :
          /\ searchQuery = f[1]
          /\ filterPriority = f[2]
          /\ filterType = f[3]
          /\ filterAssignee = f[4]
    /\ viewMode = "board"
    /\ dragging = NoDrag
    /\ pendingMoves = 0
    /\ out = <<>>
    /\ logged = <<>>
    /\ lastEvent = NoEvent
    /\ InitModals

Next ==
    \/ \E a \in PoolIds : HandleDragStart(a)
    \/ \E o \in OverIds, b \in Behaviours : HandleDragEnd(o, b)
    \/ DragCancel
    \/ MoveResolved
    \/ MoveRejected
    \/ \E t \in Range(tasks) : HandleTaskClick(t)
    \/ CloseTaskModal
    \/ \E m \in {"board", "list"} : SetViewMode(m)
    \/ \E id \in PoolIds, st \in Statuses : HostSetStatus(id, st)
    \/ \E id \in PoolIds : HostRemove(id)

Spec == Init /\ [][Next]_vars

(***************************************************************************)
(* Search and filter controls, and the derived-view specification          *)
(***************************************************************************)
\* The longest collection the derived-view specification starts from.
MaxViewTasks == 2

\* The status each task of a view collection has.
ViewStatus(id) ==
    CASE id = "t1" -> "todo"
      [] id = "T2" -> "in-progress"
      [] id = "bug" -> "done"
      [] OTHER -> "todo"

\* The collections of at most n tasks with distinct ids drawn from ViewIds.
RECURSIVE ViewCollections(_)
ViewCollections(n) ==
    IF n = 0 THEN {<<>>}
    ELSE LET shorter == ViewCollections(n - 1)
             extend == {p \in shorter \X ViewIds :
                           /\ Len(p[1]) = n - 1
                           /\ \A i \in 1..Len(p[1]) : p[1][i].id # p[2]}
         IN  shorter \cup {Append(p[1], PoolTask(p[2], ViewStatus(p[2]))) : p \in extend}

\* The texts typed into the search box.
Queries == {<<>>, <<"b", "u", "g">>, <<"B", "U">>, <<"t">>, <<"2">>, <<"z">>}

\* The values of the three selects (the assignee select also lists assignees).
PrioritySelections == {"all"} \cup Priorities
TypeSelections == {"all"} \cup IssueTypes
AssigneeSelections == {"all", "unassigned", "ann"}

\* const activeFiltersCount
activeFiltersCount ==
    (IF filterPriority # "all" THEN 1 ELSE 0)
    + (IF filterType # "all" THEN 1 ELSE 0)
    + (IF filterAssignee # "all" THEN 1 ELSE 0)

viewQuiet ==
    /\ out' = <<>> /\ logged' = <<>> /\ lastEvent' = NoEvent
    /\ UNCHANGED <<restVars, viewVars, crudProps, modalVars, tasks, propVars, activeTask, selectedTask, viewMode, dragging,
                   pendingMoves>>

\* The search input's onChange: setSearchQuery(e.target.value)
SetSearchQuery(q) ==
    /\ enableSearch
    /\ searchQuery # q
    /\ searchQuery' = q
    /\ UNCHANGED <<filterPriority, filterType, filterAssignee>>
    /\ viewQuiet

\* The priority select's onChange
SetFilterPriority(p) ==
    /\ enableFilters
    /\ filterPriority # p
    /\ filterPriority' = p
    /\ UNCHANGED <<searchQuery, filterType, filterAssignee>>
    /\ viewQuiet

\* The type select's onChange
SetFilterType(ty) ==
    /\ enableFilters
    /\ filterType # ty
    /\ filterType' = ty
    /\ UNCHANGED <<searchQuery, filterPriority, filterAssignee>>
    /\ viewQuiet

\* The assignee select's onChange: its options are all, unassigned and assignees
SetFilterAssignee(a) ==
    /\ enableFilters
    /\ filterAssignee # a
    /\ a \in {"all", "unassigned"} \cup Range(assignees)
    /\ filterAssignee' = a
    /\ UNCHANGED <<searchQuery, filterPriority, filterType>>
    /\ viewQuiet

\* The Clear button, shown while a filter is selected
ClearFilters ==
    /\ enableFilters
    /\ activeFiltersCount > 0
    /\ filterPriority' = "all"
    /\ filterType' = "all"
    /\ filterAssignee' = "all"
    /\ UNCHANGED searchQuery
    /\ viewQuiet

\* The host re-renders the board with another enableSearch / enableFilters.
HostSetEnableSearch(v) ==
    /\ enableSearch # v
    /\ enableSearch' = v
    /\ out' = <<>> /\ logged' = <<>> /\ lastEvent' = NoEvent
    /\ UNCHANGED <<restVars, viewVars, crudProps, modalVars, tasks, hasOnTaskMove, customColumns, enableFilters, activeTask,
                   selectedTask, filterVars, viewMode, dragging, pendingMoves>>

HostSetEnableFilters(v) ==
    /\ enableFilters # v
    /\ enableFilters' = v
    /\ out' = <<>> /\ logged' = <<>> /\ lastEvent' = NoEvent
    /\ UNCHANGED <<restVars, viewVars, crudProps, modalVars, tasks, hasOnTaskMove, customColumns, enableSearch, activeTask,
                   selectedTask, filterVars, viewMode, dragging, pendingMoves>>

\* The board as mounted on a collection: nothing typed, nothing selected.
InitView ==
    /\ tasks \in ViewCollections(MaxViewTasks)
    /\ hasOnTaskMove = TRUE
    /\ customColumns = [given |-> FALSE, value |-> <<>>]
    /\ enableSearch = TRUE
    /\ enableFilters = TRUE
    /\ activeTask = <<>>
    /\ selectedTask = <<>>
    /\ searchQuery = <<>>
    /\ filterPriority = "all"
    /\ filterType = "all"
    /\ filterAssignee = "all"
    /\ viewMode = "board"
    /\ dragging = NoDrag
    /\ pendingMoves = 0
    /\ out = <<>>
    /\ logged = <<>>
    /\ lastEvent = NoEvent
    /\ InitModals

NextView ==
    \/ \E q \in Queries : SetSearchQuery(q)
    \/ \E p \in PrioritySelections : SetFilterPriority(p)
    \/ \E ty \in TypeSelections : SetFilterType(ty)
    \/ \E a \in AssigneeSelections : SetFilterAssignee(a)
    \/ ClearFilters
    \/ \E v \in BOOLEAN : HostSetEnableSearch(v)
    \/ \E v \in BOOLEAN : HostSetEnableFilters(v)
    \/ \E id \in ViewIds : HostRemove(id)

SpecView == InitView /\ [][NextView]_vars

(***************************************************************************)
(* The create form (AddTaskModal) and the task view (TaskModal)            *)
(***************************************************************************)
\* String.prototype.trim; " " is the white space of the model's alphabet.
RECURSIVE TrimStart(_)
TrimStart(s) == IF s # <<>> /\ Head(s) = " " THEN TrimStart(Tail(s)) ELSE s

RECURSIVE TrimEnd(_)
TrimEnd(s) ==
    IF s # <<>> /\ s[Len(s)] = " " THEN TrimEnd(SubSeq(s, 1, Len(s) - 1)) ELSE s

Trim(s) == TrimEnd(TrimStart(s))

\* At most this many onTaskUpdate promises are pending at once.
MaxPendingUpdates == 1

\* At most this many onTaskCreate / onTaskDelete promises are pending at once.
MaxPendingCalls == 1

\* What the user types into the form's title field.
FormTitles == {<<>>, <<" ", " ">>, <<" ", "a", " ">>, <<"B">>}

\* The options picked in the task view's selects: a field and its new value.
Updates == {[field |-> "priority", value |-> "low"]}

\* What the user types into the task view's assignee field.
AssigneeTexts == {""}

\* Mutant: the create form is rendered whenever it was opened.
AddTaskModalShown_Ungated == isAddTaskModalOpen

\* {isAddTaskModalOpen && enableCreateTask && <AddTaskModal .../>}
AddTaskModalShown == isAddTaskModalOpen /\ enableCreateTask

\* {selectedTask && <TaskModal .../>}
TaskModalShown == selectedTask # <<>>

\* A modal's backdrop (fixed inset-0) covers the board: no pointer click
\* reaches a task card or row under it.  The board's buttons stay rendered
\* and enabled, and the keyboard still activates them.
PointerReachesBoard == ~AddTaskModalShown /\ ~TaskModalShown

\* s without its i-th element.
RemoveAt(s, i) == SubSeq(s, 1, i - 1) \o SubSeq(s, i + 1, Len(s))

\* AddTaskModal.handleSubmit: the newTask literal, the form's other fields as
\* the form starts them (the id is task-<Date.now()>).
NewTask(formTitle, st) ==
    [id |-> "task-1", title |-> Trim(formTitle), description |-> <<>>,
     status |-> st, priority |-> "medium", type |-> "task",
     assignee |-> Undefined, comments |-> <<>>]

\* Mutant: the title is tested without trimming it.
SubmitCalls_NoTrim(formTitle, st, provided) ==
    IF formTitle = <<>> THEN <<>>
    ELSE IF provided
         THEN <<[cb |-> "onTaskCreate", task |-> NewTask(formTitle, st)]>>
         ELSE <<>>

\* handleSubmit followed by handleTaskAdded: the host callbacks invoked.
SubmitCalls(formTitle, st, provided) ==
    IF Trim(formTitle) = <<>> THEN <<>>
    ELSE IF provided
         THEN <<[cb |-> "onTaskCreate", task |-> NewTask(formTitle, st)]>>
         ELSE <<>>

\* handleAddTask(status): the header's Create Task button passes 'todo', a
\* column's Add Task button passes the column's id.  A form that is not shown
\* mounts with an empty title; a form already shown stays mounted and keeps
\* what was typed.
HandleAddTask(st) ==
    /\ addTaskStatus' = st
    /\ isAddTaskModalOpen' = TRUE
    /\ title' = IF AddTaskModalShown THEN title ELSE <<>>
    /\ out' = <<>> /\ logged' = <<>>
    /\ lastEvent' = [NoEvent EXCEPT !.op = "addTask"]
    /\ UNCHANGED <<restVars, viewVars, crudProps, editedTask, pendingUpdates, pendingCalls, tasks,
                   propVars, activeTask, selectedTask, filterVars, viewMode,
                   dragging, pendingMoves>>

\* The header's Create Task button, rendered when enableCreateTask is set;
\* it is rendered and enabled under an open modal too.
ClickCreateTask ==
    /\ enableCreateTask
    /\ (enableSearch \/ enableFilters)
    /\ HandleAddTask("todo")

\* A column's Add Task button, rendered by every column of the board; it is
\* rendered and enabled under an open modal too.
ClickAddTask(c) ==
    /\ viewMode = "board"
    /\ c \in Range(boardColumns)
    /\ HandleAddTask(c)

\* The title field's onChange: setTitle(e.target.value)
SetTitle(v) ==
    /\ AddTaskModalShown
    /\ title # v
    /\ title' = v
    /\ out' = <<>> /\ logged' = <<>>
    /\ lastEvent' = [NoEvent EXCEPT !.op = "setTitle"]
    /\ UNCHANGED <<restVars, viewVars, crudProps, isAddTaskModalOpen, addTaskStatus, editedTask,
                   pendingUpdates, pendingCalls, tasks, propVars, activeTask,
                   selectedTask, filterVars, viewMode, dragging, pendingMoves>>

\* AddTaskModal onClose (the X and Cancel buttons): setIsAddTaskModalOpen(false)
CloseAddTaskModal ==
    /\ AddTaskModalShown
    /\ isAddTaskModalOpen' = FALSE
    /\ title' = <<>>
    /\ out' = <<>> /\ logged' = <<>>
    /\ lastEvent' = [NoEvent EXCEPT !.op = "closeAddTaskModal"]
    /\ UNCHANGED <<restVars, viewVars, crudProps, addTaskStatus, editedTask, pendingUpdates,
                   pendingCalls, tasks, propVars, activeTask, selectedTask,
                   filterVars, viewMode, dragging, pendingMoves>>

\* AddTaskModal.handleSubmit with handleTaskAdded up to its await and onClose:
\* b is how onTaskCreate ends.
HandleSubmit(b) ==
    /\ AddTaskModalShown
    /\ LET calls == SubmitCalls(title, addTaskStatus, hasOnTaskCreate)
       IN  /\ calls = <<>> => b = "returns"
           /\ b = "promise" => Len(pendingCalls) < MaxPendingCalls
           /\ out' = calls
           /\ IF Trim(title) = <<>>
              THEN /\ logged' = <<"Title is required">>
                   /\ UNCHANGED <<isAddTaskModalOpen, title>>
              ELSE /\ logged' = IF b = "throws" THEN <<"Error creating task:">>
                                 ELSE <<>>
                   /\ isAddTaskModalOpen' = FALSE
                   /\ title' = <<>>
           /\ pendingCalls' = IF b = "promise" THEN Append(pendingCalls, "create")
                               ELSE pendingCalls
    /\ lastEvent' = [NoEvent EXCEPT !.op = "submit"]
    /\ UNCHANGED <<restVars, viewVars, crudProps, addTaskStatus, editedTask, pendingUpdates, tasks,
                   propVars, activeTask, selectedTask, filterVars, viewMode,
                   dragging, pendingMoves>>

\* handleTaskAdded / handleTaskDelete after the await: the promise settles;
\* a rejection is written to the console.
CallSettled(i, rejected) ==
    /\ i \in 1..Len(pendingCalls)
    /\ pendingCalls' = RemoveAt(pendingCalls, i)
    /\ out' = <<>>
    /\ logged' = IF ~rejected THEN <<>>
                  ELSE IF pendingCalls[i] = "create" THEN <<"Error creating task:">>
                  ELSE <<"Error deleting task:">>
    /\ lastEvent' = [NoEvent EXCEPT !.op = "callSettled"]
    /\ UNCHANGED <<restVars, viewVars, crudProps, isAddTaskModalOpen, addTaskStatus, title, editedTask,
                   pendingUpdates, tasks, propVars, activeTask, selectedTask,
                   filterVars, viewMode, dragging, pendingMoves>>

\* TaskModal.handleUpdate: { ...editedTask, ...updates } (the updatedAt stamp
\* is left out: the model has no clock).
ApplyUpdate(t, upd) ==
    IF upd.field = "priority" THEN [t EXCEPT !.priority = upd.value]
    ELSE [t EXCEPT !.assignee = upd.value]

\* handleTaskUpdate: the host callbacks invoked.
UpdateCalls(updated, provided) ==
    IF provided THEN <<[cb |-> "onTaskUpdate", task |-> updated]>> ELSE <<>>

\* TaskModal.handleUpdate from setEditedTask(updated) on, with
\* handleTaskUpdate up to its await: b is how onTaskUpdate ends.
ForwardUpdate(updated, b) ==
    LET calls == UpdateCalls(updated, hasOnTaskUpdate)
    IN  /\ calls = <<>> => b = "returns"
        /\ b = "promise" => Len(pendingUpdates) < MaxPendingUpdates
        /\ editedTask' = <<updated>>
        /\ out' = calls
        /\ logged' = IF b = "throws" THEN <<"Error updating task:">> ELSE <<>>
        /\ selectedTask' = IF b = "returns" THEN <<updated>> ELSE selectedTask
        /\ pendingUpdates' = IF b = "promise" THEN Append(pendingUpdates, updated)
                              ELSE pendingUpdates

\* A select's onChange: TaskModal.handleUpdate with handleTaskUpdate up to its
\* await.  upd is the option picked, b is how onTaskUpdate ends.  A select
\* shows editedTask's value and fires its change event only when another
\* option is picked.  A callback that returns no promise lets the await
\* continue before any other event.
HandleTaskUpdate(upd, b) ==
    /\ TaskModalShown
    /\ LET updated == ApplyUpdate(editedTask[1], upd)
           calls == UpdateCalls(updated, hasOnTaskUpdate)
       IN  /\ updated # editedTask[1]
           /\ calls = <<>> => b = "returns"
           /\ b = "promise" => Len(pendingUpdates) < MaxPendingUpdates
           /\ editedTask' = <<updated>>
           /\ out' = calls
           /\ logged' = IF b = "throws" THEN <<"Error updating task:">> ELSE <<>>
           /\ selectedTask' = IF b = "returns" THEN <<updated>> ELSE selectedTask
           /\ pendingUpdates' = IF b = "promise" THEN Append(pendingUpdates, updated)
                                 ELSE pendingUpdates
    /\ lastEvent' = [NoEvent EXCEPT !.op = "update"]
    /\ UNCHANGED <<restVars, viewVars, crudProps, isAddTaskModalOpen, addTaskStatus, title, pendingCalls,
                   tasks, propVars, activeTask, filterVars, viewMode, dragging,
                   pendingMoves>>

\* The assignee input's onChange: setEditedTask({ ...editedTask, assignee });
\* the input shows editedTask.assignee || '' and a change event carries
\* another text than the one shown.
SetEditedAssignee(v) ==
    /\ TaskModalShown
    /\ (IF editedTask[1].assignee = Undefined THEN "" ELSE editedTask[1].assignee) # v
    /\ editedTask' = <<[editedTask[1] EXCEPT !.assignee = v]>>
    /\ out' = <<>> /\ logged' = <<>>
    /\ lastEvent' = [NoEvent EXCEPT !.op = "setEditedAssignee"]
    /\ UNCHANGED <<restVars, viewVars, crudProps, isAddTaskModalOpen, addTaskStatus, title,
                   pendingUpdates, pendingCalls, tasks, propVars, activeTask,
                   selectedTask, filterVars, viewMode, dragging, pendingMoves>>

\* The assignee input's onBlur: handleUpdate({ assignee: editedTask.assignee }),
\* whether or not anything was typed.
HandleAssigneeBlur(b) ==
    /\ TaskModalShown
    /\ ForwardUpdate(ApplyUpdate(editedTask[1],
                                 [field |-> "assignee",
                                  value |-> editedTask[1].assignee]), b)
    /\ lastEvent' = [NoEvent EXCEPT !.op = "assigneeBlur"]
    /\ UNCHANGED <<restVars, viewVars, crudProps, isAddTaskModalOpen, addTaskStatus, title,
                   pendingCalls, tasks, propVars, activeTask, filterVars, viewMode,
                   dragging, pendingMoves>>

\* Mutant: a fulfilled update also resets the mounted view to its task.
UpdateResolved_ResyncsView(i) ==
    /\ i \in 1..Len(pendingUpdates)
    /\ pendingUpdates' = RemoveAt(pendingUpdates, i)
    /\ selectedTask' = <<pendingUpdates[i]>>
    /\ editedTask' = <<pendingUpdates[i]>>
    /\ out' = <<>>
    /\ logged' = <<>>
    /\ lastEvent' = [NoEvent EXCEPT !.op = "updateResolved"]
    /\ UNCHANGED <<restVars, viewVars, crudProps, isAddTaskModalOpen, addTaskStatus, title, pendingCalls,
                   tasks, propVars, activeTask, filterVars, viewMode, dragging,
                   pendingMoves>>

\* handleTaskUpdate after its await: the promise is fulfilled and
\* setSelectedTask(updatedTask) runs; a task view that is not mounted mounts
\* with editedTask = useState(task), a mounted one keeps its editedTask.
UpdateResolved(i) ==
    /\ i \in 1..Len(pendingUpdates)
    /\ pendingUpdates' = RemoveAt(pendingUpdates, i)
    /\ selectedTask' = <<pendingUpdates[i]>>
    /\ editedTask' = IF selectedTask = <<>> THEN <<pendingUpdates[i]>> ELSE editedTask
    /\ out' = <<>>
    /\ logged' = <<>>
    /\ lastEvent' = [NoEvent EXCEPT !.op = "updateResolved"]
    /\ UNCHANGED <<restVars, viewVars, crudProps, isAddTaskModalOpen, addTaskStatus, title, pendingCalls,
                   tasks, propVars, activeTask, filterVars, viewMode, dragging,
                   pendingMoves>>

\* Mutant: the catch block shows the rejected task in the task view.
UpdateRejected_SelectsTask(i) ==
    /\ i \in 1..Len(pendingUpdates)
    /\ pendingUpdates' = RemoveAt(pendingUpdates, i)
    /\ selectedTask' = <<pendingUpdates[i]>>
    /\ editedTask' = IF selectedTask = <<>> THEN <<pendingUpdates[i]>> ELSE editedTask
    /\ out' = <<>>
    /\ logged' = <<"Error updating task:">>
    /\ lastEvent' = [NoEvent EXCEPT !.op = "updateRejected"]
    /\ UNCHANGED <<restVars, viewVars, crudProps, isAddTaskModalOpen, addTaskStatus, title, pendingCalls,
                   tasks, propVars, activeTask, filterVars, viewMode, dragging,
                   pendingMoves>>

\* handleTaskUpdate after its await: the promise is rejected, the catch block
\* writes to the console.
UpdateRejected(i) ==
    /\ i \in 1..Len(pendingUpdates)
    /\ pendingUpdates' = RemoveAt(pendingUpdates, i)
    /\ out' = <<>>
    /\ logged' = <<"Error updating task:">>
    /\ lastEvent' = [NoEvent EXCEPT !.op = "updateRejected"]
    /\ UNCHANGED <<restVars, viewVars, crudProps, isAddTaskModalOpen, addTaskStatus, title, editedTask,
                   pendingCalls, tasks, propVars, activeTask, selectedTask,
                   filterVars, viewMode, dragging, pendingMoves>>

\* handleTaskDelete: the host callbacks invoked.
DeleteCalls(taskId, provided) ==
    IF provided THEN <<[cb |-> "onTaskDelete", taskId |-> taskId]>> ELSE <<>>

\* The task view's Delete Task button: window.confirm, then onDelete(task.id)
\* (task is the view's prop, the board's selectedTask) and onClose();
\* b is how onTaskDelete ends.
HandleTaskDelete(confirmed, b) ==
    /\ TaskModalShown
    /\ LET calls == IF confirmed THEN DeleteCalls(selectedTask[1].id, hasOnTaskDelete)
                    ELSE <<>>
       IN  /\ calls = <<>> => b = "returns"
           /\ b = "promise" => Len(pendingCalls) < MaxPendingCalls
           /\ out' = calls
           /\ logged' = IF b = "throws" THEN <<"Error deleting task:">> ELSE <<>>
           /\ pendingCalls' = IF b = "promise" THEN Append(pendingCalls, "delete")
                               ELSE pendingCalls
    /\ selectedTask' = IF confirmed THEN <<>> ELSE selectedTask
    /\ editedTask' = IF confirmed THEN <<>> ELSE editedTask
    /\ isEditing' = IF confirmed THEN FALSE ELSE isEditing
    /\ newComment' = IF confirmed THEN <<>> ELSE newComment
    /\ lastEvent' = [NoEvent EXCEPT
                        !.op = IF confirmed THEN "delete" ELSE "deleteDeclined"]
    /\ UNCHANGED <<restVars, crudProps, isAddTaskModalOpen, addTaskStatus, title,
                   pendingUpdates, tasks, propVars, activeTask, filterVars, viewMode,
                   dragging, pendingMoves>>

\* The Escape key while a modal is shown: neither modal, nor the board,
\* registers a key handler for it, so no state is set.
PressEscape ==
    /\ (TaskModalShown \/ AddTaskModalShown)
    /\ dragging = NoDrag
    /\ out' = <<>> /\ logged' = <<>>
    /\ lastEvent' = [NoEvent EXCEPT !.op = "escape"]
    /\ UNCHANGED <<restVars, viewVars, crudProps, modalVars, tasks, propVars, activeTask, selectedTask,
                   filterVars, viewMode, dragging, pendingMoves>>

\* What the board renders for a task's card: Column renders <TaskCard/>; the
\* renderTaskCard prop is destructured and not used.
RenderedCard(t) == [render |-> "TaskCard", task |-> t.id]

\* {renderHeader ? renderHeader(headerContent) : headerContent}
RenderedHeader ==
    IF hasRenderHeader THEN [render |-> "renderHeader", of |-> "headerContent"]
    ELSE [render |-> "headerContent", of |-> ""]

(***************************************************************************)
(* The host's side of create, update, delete and of the render overrides   *)
(***************************************************************************)
\* setTasks(prev => prev.map(t => t.id === updatedTask.id ? updatedTask : t))
ReplaceTask(ts, u) == [i \in 1..Len(ts) |-> IF ts[i].id = u.id THEN u ELSE ts[i]]

\* The host applies an update it was asked for, while or after its callback runs.
HostReplace(u) ==
    /\ \/ u \in Range(pendingUpdates)
       \/ (out # <<>> /\ out[1].cb = "onTaskUpdate" /\ u = out[1].task)
    /\ ReplaceTask(tasks, u) # tasks
    /\ tasks' = ReplaceTask(tasks, u)
    /\ out' = <<>> /\ logged' = <<>> /\ lastEvent' = NoEvent
    /\ UNCHANGED <<restVars, viewVars, crudProps, modalVars, propVars, activeTask, selectedTask,
                   filterVars, viewMode, dragging, pendingMoves>>

\* App.handleTaskCreate: setTasks(prev => [...prev, newTask]), run while the
\* board's onTaskCreate call is made.  Created ids are task-<Date.now()> and
\* differ from every id held; the model has the one id, so the task is added
\* while no held task has it.
HostAdd(u) ==
    /\ out # <<>> /\ out[1].cb = "onTaskCreate" /\ u = out[1].task
    /\ Find(tasks, u.id) = <<>>
    /\ tasks' = Append(tasks, u)
    /\ out' = <<>> /\ logged' = <<>> /\ lastEvent' = NoEvent
    /\ UNCHANGED <<restVars, viewVars, crudProps, modalVars, propVars, activeTask, selectedTask,
                   filterVars, viewMode, dragging, pendingMoves>>

\* The host re-renders the board with another enableCreateTask; the create
\* form unmounts when its gate closes and mounts with an empty title.
HostSetEnableCreateTask(v) ==
    /\ enableCreateTask # v
    /\ enableCreateTask' = v
    /\ title' = <<>>
    /\ out' = <<>> /\ logged' = <<>> /\ lastEvent' = NoEvent
    /\ UNCHANGED <<restVars, viewVars, hasOnTaskCreate, hasOnTaskUpdate, hasOnTaskDelete,
                   hasRenderTaskCard, hasRenderHeader, isAddTaskModalOpen,
                   addTaskStatus, editedTask, pendingUpdates, pendingCalls, tasks,
                   propVars, activeTask, selectedTask, filterVars, viewMode,
                   dragging, pendingMoves>>

\* The host re-renders the board with or without the two render overrides.
HostSetRenderers(card, header) ==
    /\ <<card, header>> # <<hasRenderTaskCard, hasRenderHeader>>
    /\ hasRenderTaskCard' = card
    /\ hasRenderHeader' = header
    /\ out' = <<>> /\ logged' = <<>> /\ lastEvent' = NoEvent
    /\ UNCHANGED <<restVars, viewVars, hasOnTaskCreate, hasOnTaskUpdate, hasOnTaskDelete,
                   enableCreateTask, modalVars, tasks, propVars, activeTask,
                   selectedTask, filterVars, viewMode, dragging, pendingMoves>>

(***************************************************************************)
(* Specifications of the two modals with their host                        *)
(***************************************************************************)
\* The board as mounted on two tasks, the three callbacks supplied or omitted.
InitModal ==
    /\ tasks = InitTasks
    /\ hasOnTaskMove = TRUE
    /\ customColumns = [given |-> FALSE, value |-> <<>>]
    /\ enableSearch = TRUE
    /\ enableFilters = TRUE
    /\ activeTask = <<>>
    /\ selectedTask = <<>>
    /\ searchQuery = <<>>
    /\ filterPriority = "all"
    /\ filterType = "all"
    /\ filterAssignee = "all"
    /\ viewMode = "board"
    /\ dragging = NoDrag
    /\ pendingMoves = 0
    /\ out = <<>>
    /\ logged = <<>>
    /\ lastEvent = NoEvent
    /\ \E given \in BOOLEAN :
          /\ hasOnTaskCreate = given
          /\ hasOnTaskUpdate = given
          /\ hasOnTaskDelete = given
    /\ enableCreateTask = TRUE
    /\ hasRenderTaskCard = FALSE
    /\ hasRenderHeader = FALSE
    /\ isAddTaskModalOpen = FALSE
    /\ addTaskStatus = "todo"
    /\ title = <<>>
    /\ editedTask = <<>>
    /\ pendingUpdates = <<>>
    /\ pendingCalls = <<>>
    /\ isEditing = FALSE
    /\ newComment = <<>>
    /\ requests = <<>>
    /\ settled = <<>>
    /\ hostError = Undefined
    /\ loading = FALSE

\* The task view: open, edit, delete, close, and the host applying the changes.
NextTaskView ==
    \/ \E t \in Range(tasks) : HandleTaskClick(t)
    \/ CloseTaskModal
    \/ \E upd \in Updates, b \in Behaviours : HandleTaskUpdate(upd, b)
    \/ \E v \in AssigneeTexts : SetEditedAssignee(v)
    \/ \E b \in Behaviours : HandleAssigneeBlur(b)
    \/ \E i \in 1..MaxPendingUpdates : UpdateResolved(i)
    \/ \E i \in 1..MaxPendingUpdates : UpdateRejected(i)
    \/ \E confirmed \in BOOLEAN, b \in Behaviours : HandleTaskDelete(confirmed, b)
    \/ \E i \in 1..MaxPendingCalls, rejected \in BOOLEAN : CallSettled(i, rejected)
    \/ PressEscape
    \/ \E u \in Range(pendingUpdates)
                  \cup {o.task : o \in {c \in Range(out) : c.cb = "onTaskUpdate"}} :
          HostReplace(u)
    \/ \E id \in PoolIds : HostRemove(id)

SpecTaskView == InitModal /\ [][NextTaskView]_vars

\* The create form: open, type, submit, close, the host adding the created
\* task, the task view opened by a pointer click and closed, and the host's
\* flags and render overrides.
NextForm ==
    \/ ClickCreateTask
    \/ \E t \in Range(tasks) : PointerReachesBoard /\ HandleTaskClick(t)
    \/ CloseTaskModal
    \/ \E u \in {o.task : o \in {c \in Range(out) : c.cb = "onTaskCreate"}} : HostAdd(u)
    \/ \E id \in {NewTask(<<>>, "todo").id} : HostRemove(id)
    \/ \E c \in Statuses : ClickAddTask(c)
    \/ \E v \in FormTitles : SetTitle(v)
    \/ CloseAddTaskModal
    \/ \E b \in Behaviours : HandleSubmit(b)
    \/ \E i \in 1..MaxPendingCalls, rejected \in BOOLEAN : CallSettled(i, rejected)
    \/ PressEscape
    \/ \E v \in BOOLEAN : HostSetEnableCreateTask(v)
    \/ \E card \in BOOLEAN, header \in BOOLEAN : HostSetRenderers(card, header)

SpecForm == InitModal /\ [][NextForm]_vars

(***************************************************************************)
(* Properties of the drag interaction controller                           *)
(***************************************************************************)
\* The last step was a drop (handleDragEnd ran).
Dropped == lastEvent.op = "dragEnd"

HasTask(id) == \E t \in Range(tasks) : t.id = id
TaskWithId(id) == CHOOSE t \in Range(tasks) : t.id = id

\* The status a drop target stands for, as the specification resolves it:
\* a column id is that column, otherwise a task id is that task's column.
TargetStatus(o) ==
    IF o \in Statuses THEN o
    ELSE IF HasTask(o) THEN TaskWithId(o).status
    ELSE Undefined

MoveCall(id, new, old) ==
    [cb |-> "onTaskMove", taskId |-> id, newStatus |-> new, oldStatus |-> old]

\* C1: a drop whose resolved target status is the dragged task's current
\* status (its own column, or a card of the same column) invokes no callback.
C1_SameColumnDropInvokesNothing ==
    (/\ Dropped
     /\ lastEvent.over # NoOver
     /\ HasTask(lastEvent.active)
     /\ TargetStatus(lastEvent.over) = TaskWithId(lastEvent.active).status)
    => out = <<>>

\* C1 witness: with onTaskMove supplied, a card was dropped on another card
\* of the same column and nothing was invoked.
C1_Witness ==
    /\ Dropped
    /\ hasOnTaskMove
    /\ lastEvent.over \notin Statuses
    /\ lastEvent.over # lastEvent.active
    /\ HasTask(lastEvent.active)
    /\ HasTask(lastEvent.over)
    /\ TaskWithId(lastEvent.over).status = TaskWithId(lastEvent.active).status
    /\ out = <<>>

\* C2 as claimed: dropping t1 on the card of another task t2 of a different
\* status invokes onTaskMove once with (t1.id, t2.status, t1.status).
C2_DropOnCardMovesToItsColumn ==
    (/\ Dropped
     /\ hasOnTaskMove
     /\ HasTask(lastEvent.active)
     /\ HasTask(lastEvent.over)
     /\ lastEvent.over # lastEvent.active
     /\ TaskWithId(lastEvent.over).status # TaskWithId(lastEvent.active).status)
    => out = <<MoveCall(lastEvent.active, TaskWithId(lastEvent.over).status,
                        TaskWithId(lastEvent.active).status)>>

\* C2 amended: the same, for a target card whose id is not itself one of the
\* four status names; the card is looked up in the unfiltered collection.
C2_DropOnCardNotNamedLikeColumn ==
    (/\ Dropped
     /\ hasOnTaskMove
     /\ HasTask(lastEvent.active)
     /\ HasTask(lastEvent.over)
     /\ lastEvent.over \notin Statuses
     /\ lastEvent.over # lastEvent.active
     /\ TaskWithId(lastEvent.over).status # TaskWithId(lastEvent.active).status)
    => out = <<MoveCall(lastEvent.active, TaskWithId(lastEvent.over).status,
                        TaskWithId(lastEvent.active).status)>>

\* C2 witness: a card was dropped on a card that the filters hide, and the
\* move to the hidden card's column was requested once.
C2_Witness ==
    /\ Dropped
    /\ HasTask(lastEvent.over)
    /\ lastEvent.over \notin Statuses
    /\ lastEvent.over \notin {t.id : t \in Range(filteredTasks)}
    /\ Len(out) = 1
    /\ out[1].taskId = lastEvent.active
    /\ out[1].newStatus = TaskWithId(lastEvent.over).status

\* C3: dropping a task on a column id c other than its status invokes
\* onTaskMove(taskId, c, status) once, also when c is the id of a task too.
C3_DropOnColumnMovesToColumn ==
    (/\ Dropped
     /\ hasOnTaskMove
     /\ HasTask(lastEvent.active)
     /\ lastEvent.over \in Statuses
     /\ lastEvent.over # TaskWithId(lastEvent.active).status)
    => out = <<MoveCall(lastEvent.active, lastEvent.over,
                        TaskWithId(lastEvent.active).status)>>

\* C3 witness: the drop target "done" names a column and a task of another
\* column, and the move to column "done" was requested.
C3_Witness ==
    /\ Dropped
    /\ lastEvent.over \in Statuses
    /\ HasTask(lastEvent.over)
    /\ TaskWithId(lastEvent.over).status # lastEvent.over
    /\ lastEvent.active # lastEvent.over
    /\ Len(out) = 1
    /\ out[1].newStatus = lastEvent.over

\* The drop of this step has no target, or one that is neither a column id
\* nor the id of a task.
UnresolvedDropStep ==
    /\ dragging # NoDrag
    /\ lastEvent'.op = "dragEnd"
    /\ \/ lastEvent'.over = NoOver
       \/ (lastEvent'.over \notin Statuses /\ ~HasTask(lastEvent'.over))

\* C4: a drop with no target or an unresolvable one invokes no callback and
\* leaves search text, filter selections, view mode and grouping as they were.
C4_UnresolvedDropChangesNothing ==
    [][UnresolvedDropStep =>
          /\ out' = <<>>
          /\ searchQuery' = searchQuery
          /\ filterPriority' = filterPriority
          /\ filterType' = filterType
          /\ filterAssignee' = filterAssignee
          /\ viewMode' = viewMode
          /\ tasksByStatus' = tasksByStatus]_vars

\* C4 witness: with filters selected and onTaskMove supplied, an existing card
\* was dropped on something that is neither column nor card.
C4_Witness ==
    /\ Dropped
    /\ hasOnTaskMove
    /\ HasTask(lastEvent.active)
    /\ lastEvent.over = "zz"
    /\ searchQuery # <<>>
    /\ filterAssignee # "all"
    /\ out = <<>>

\* C5: a drag step invokes at most one callback, and only onTaskMove, and
\* leaves the tasks collection alone; tasks changes only in host steps.
C5_DragNeverMutatesTasks ==
    [][/\ lastEvent'.op \in {"dragStart", "dragEnd"} =>
            /\ tasks' = tasks
            /\ Len(out') <= 1
            /\ \A i \in 1..Len(out') : out'[i].cb = "onTaskMove"
       /\ lastEvent'.op = "dragStart" => out' = <<>>
       /\ tasks' # tasks =>
            \/ \E id \in PoolIds, st \in Statuses : HostSetStatus(id, st)
            \/ \E id \in PoolIds : HostRemove(id)]_vars

\* C5 witness: a drop has just invoked onTaskMove, and the dragged task still
\* has the status the call names as old.
C5_Witness ==
    /\ Dropped
    /\ Len(out) = 1
    /\ HasTask(out[1].taskId)
    /\ TaskWithId(out[1].taskId).status = out[1].oldStatus

\* C6 as claimed: oldStatus is the status of the Task captured at drag start.
C6_OldStatusIsCapturedStatus ==
    (Dropped /\ out # <<>> /\ lastEvent.captured # <<>>)
    => out[1].oldStatus = lastEvent.captured[1].status

\* C6 amended: oldStatus is the status the dragged task has in the host's
\* collection when it is dropped.
C6_OldStatusIsStatusAtDrop ==
    (Dropped /\ out # <<>>)
    => /\ out[1].taskId = lastEvent.active
       /\ HasTask(lastEvent.active)
       /\ out[1].oldStatus = TaskWithId(lastEvent.active).status

\* C6 witness: the host changed the dragged task's status during the drag,
\* and the call names the new one as old.
C6_Witness ==
    /\ Dropped
    /\ out # <<>>
    /\ lastEvent.captured # <<>>
    /\ lastEvent.captured[1].status # out[1].oldStatus
    /\ out[1].oldStatus = TaskWithId(lastEvent.active).status

\* C7: when onTaskMove fails the handler ends normally: a rejection changes
\* no state and invokes nothing; a throw leaves the drop's own effect only.
C7_MoveFailureChangesNothing ==
    [][/\ lastEvent'.op = "moveRejected" =>
            /\ UNCHANGED <<tasks, activeTask, selectedTask, searchQuery,
                           filterPriority, filterType, filterAssignee, viewMode,
                           dragging>>
            /\ out' = <<>>
            /\ pendingMoves' = pendingMoves - 1
       /\ (lastEvent'.op = "dragEnd" /\ logged' # <<>>) =>
            /\ UNCHANGED <<tasks, selectedTask, searchQuery, filterPriority,
                           filterType, filterAssignee, viewMode, pendingMoves>>
            /\ activeTask' = <<>>
            /\ Len(out') = 1]_vars

\* C7 witness: a move was rejected while the task view was open and filters
\* were selected.
C7_Witness ==
    /\ lastEvent.op = "moveRejected"
    /\ logged # <<>>
    /\ selectedTask # <<>>
    /\ filterPriority # "all"

\* The drop of this step is one that asks for a move: the callback is
\* supplied and the target resolves to a status other than the task's.
MoveDueStep ==
    /\ dragging # NoDrag
    /\ lastEvent'.op = "dragEnd"
    /\ hasOnTaskMove
    /\ HasTask(dragging)
    /\ TargetStatus(lastEvent'.over) # Undefined
    /\ TargetStatus(lastEvent'.over) # TaskWithId(dragging).status

\* C8: pending moves block nothing: a drag can start while a move is pending,
\* a drop that asks for a move invokes onTaskMove in the drop itself, and no
\* other step invokes a callback (calls are made in the order of the drops).
C8_MovesAreNotSerialized ==
    /\ []((pendingMoves > 0 /\ dragging = NoDrag /\ viewMode = "board"
               /\ selectedTask = <<>>)
            => ENABLED (\E a \in PoolIds : HandleDragStart(a)))
    /\ [][/\ (pendingMoves > 0 /\ MoveDueStep) =>
                /\ Len(out') = 1
                /\ out'[1].taskId = dragging
                /\ pendingMoves' >= pendingMoves
          /\ out' # <<>> => (lastEvent'.op = "dragEnd" /\ dragging # NoDrag)]_vars

\* C8 witness: a drop invoked onTaskMove and two moves are pending.
C8_Witness ==
    /\ Dropped
    /\ Len(out) = 1
    /\ pendingMoves = 2

(***************************************************************************)
(* Properties of the derived view                                          *)
(***************************************************************************)
\* The letters of the model's alphabet that come in two cases.
CaseVariants == {{"a", "A"}, {"b", "B"}, {"g", "G"}, {"t", "T"}, {"u", "U"}}

\* Two characters are the same up to case.
SameLetter(c, d) == c = d \/ {c, d} \in CaseVariants

\* q is a case-insensitive substring of text.
ContainsIgnoringCase(text, q) ==
    \E k \in 0..Len(text) :
        /\ k + Len(q) <= Len(text)
        /\ \A i \in 1..Len(q) : SameLetter(text[k + i], q[i])

\* The four predicates of filterTasks as the specification words them.
SearchPredicate(t) ==
    \/ ~enableSearch
    \/ searchQuery = <<>>
    \/ ContainsIgnoringCase(t.title, searchQuery)
    \/ ContainsIgnoringCase(t.description, searchQuery)
    \/ ContainsIgnoringCase(IdChars(t.id), searchQuery)

PriorityPredicate(t) ==
    ~enableFilters \/ filterPriority = "all" \/ t.priority = filterPriority

TypePredicate(t) ==
    ~enableFilters \/ filterType = "all" \/ t.type = filterType

\* "unassigned" selects the tasks whose assignee is absent.
AssigneePredicateAbsent(t) ==
    \/ ~enableFilters
    \/ filterAssignee = "all"
    \/ (filterAssignee = "unassigned" /\ t.assignee = Undefined)
    \/ t.assignee = filterAssignee

\* "unassigned" selects the tasks whose assignee is absent or the empty string.
AssigneePredicateAbsentOrEmpty(t) ==
    \/ ~enableFilters
    \/ filterAssignee = "all"
    \/ (filterAssignee = "unassigned" /\ t.assignee \in {Undefined, ""})
    \/ t.assignee = filterAssignee

\* C9 as claimed: the filtered list is the subsequence of tasks, in order, of
\* exactly the tasks that satisfy the four predicates, "unassigned" matching
\* the tasks whose assignee is absent.
C9_FilteredIsExactSubsequence ==
    filteredTasks =
        SelectSeq(tasks, LAMBDA t : /\ SearchPredicate(t)
                                     /\ PriorityPredicate(t)
                                     /\ TypePredicate(t)
                                     /\ AssigneePredicateAbsent(t))

\* C9 amended: the same, "unassigned" matching the tasks whose assignee is
\* absent or the empty string.
C9_FilteredIsExactSubsequenceEmptyUnassigned ==
    filteredTasks =
        SelectSeq(tasks, LAMBDA t : /\ SearchPredicate(t)
                                     /\ PriorityPredicate(t)
                                     /\ TypePredicate(t)
                                     /\ AssigneePredicateAbsentOrEmpty(t))

\* C9 witness: with "unassigned" selected, of two tasks the one with an empty
\* assignee is kept and the one assigned to someone is dropped.
C9_Witness ==
    /\ enableFilters
    /\ filterAssignee = "unassigned"
    /\ Len(tasks) = 2
    /\ Len(filteredTasks) = 1
    /\ filteredTasks[1].assignee = ""
    /\ \E i \in 1..2 : Truthy(tasks[i].assignee)

\* C10: a task passes the search test exactly when search is disabled, the
\* text is empty, or the text is a case-insensitive substring of its title,
\* description or id.
C10_SearchIsCaseInsensitiveSubstring ==
    \A i \in 1..Len(tasks) :
        MatchesSearch(tasks[i], searchQuery, enableSearch) <=> SearchPredicate(tasks[i])

\* C10 witness: the text "BU" finds a task only through its description
\* "bUG", and does not find another task.
C10_Witness ==
    /\ enableSearch
    /\ searchQuery = <<"B", "U">>
    /\ \E i, j \in 1..Len(tasks) :
          /\ MatchesSearch(tasks[i], searchQuery, enableSearch)
          /\ ~ContainsIgnoringCase(tasks[i].title, searchQuery)
          /\ ~ContainsIgnoringCase(IdChars(tasks[i].id), searchQuery)
          /\ tasks[i].description = <<"b", "U", "G">>
          /\ ~MatchesSearch(tasks[j], searchQuery, enableSearch)

\* The filtered list for given selections, the search text and flags as they are.
FilteredWith(fp, ft, fa, filtersOn) ==
    FilterSeq(tasks, searchQuery, fp, ft, fa, enableSearch, filtersOn)

\* C11: with enableFilters false the filtered list is the search-only list
\* (the list of enabled filters with the three selectors at "all"), for the
\* current selections and for every other combination of selections.
C11_DisabledFiltersAreIgnored ==
    ~enableFilters =>
        /\ filteredTasks = FilteredWith("all", "all", "all", TRUE)
        /\ \A fp \in PrioritySelections, ft \in TypeSelections,
              fa \in AssigneeSelections :
                FilteredWith(fp, ft, fa, FALSE) = filteredTasks

\* C11 witness: filters are disabled while selections are left that would
\* hide a task, and the search text alone hides another.
C11_Witness ==
    /\ ~enableFilters
    /\ filterPriority # "all"
    /\ filterAssignee # "all"
    /\ Len(filteredTasks) = 1
    /\ Len(tasks) = 2
    /\ FilteredWith(filterPriority, filterType, filterAssignee, TRUE) = <<>>

\* The sizes of the groups shown for the columns cs, added up.
RECURSIVE DisplayedCount(_, _)
DisplayedCount(shown, cs) ==
    IF cs = <<>> THEN 0 ELSE Len(shown[Head(cs)]) + DisplayedCount(shown, Tail(cs))

\* The filtered tasks whose status is not a configured column.
ExcludedPositions ==
    {i \in 1..Len(filteredTasks) : filteredTasks[i].status \notin Range(boardColumns)}

\* C12: every configured column displays exactly the filtered tasks of its
\* status, in input order; a filtered task of another status is displayed in
\* no column; the displayed groups and the excluded tasks add up to the
\* filtered list.
C12_GroupingPartitionsFiltered ==
    LET filtered == filteredTasks
        shown == [c \in Range(boardColumns) |-> ColumnTasks(c)]
    IN  /\ \A c \in Range(boardColumns) :
              shown[c] = SelectSeq(filtered, LAMBDA t : t.status = c)
        /\ \A i \in 1..Len(filtered) :
              LET t == filtered[i]
                  shownIn == {c \in Range(boardColumns) : t \in Range(shown[c])}
              IN  IF t.status \in Range(boardColumns)
                  THEN shownIn = {t.status}
                  ELSE shownIn = {}
        /\ DisplayedCount(shown, boardColumns) + Cardinality(ExcludedPositions)
              = Len(filtered)

\* C12 witness: with two of the four columns configured, one filtered task is
\* displayed in its column and another has a status that is not configured.
C12_Witness ==
    /\ customColumns.given
    /\ Len(filteredTasks) = 2
    /\ Cardinality(ExcludedPositions) = 1
    /\ \E c \in Range(boardColumns) : Len(ColumnTasks(c)) = 1

\* C12, the order of a group: two tasks share a column and are displayed in
\* input order.
C12_WitnessOrder ==
    \E c \in Range(boardColumns) :
        /\ Len(ColumnTasks(c)) = 2
        /\ ColumnTasks(c) = tasks

(***************************************************************************)
(* Properties of the create form, the task view and the public contract    *)
(***************************************************************************)
\* The last step invoked the named callback.
Invoked(cb) == \E i \in 1..Len(out) : out[i].cb = cb

\* C13: submitting the create form with a title that is empty after trimming
\* invokes no callback, leaves the collection alone and keeps the form open
\* with what was typed.
C13_EmptyTitleIsRejected ==
    [][(lastEvent'.op = "submit" /\ AddTaskModalShown /\ Trim(title) = <<>>) =>
          /\ out' = <<>>
          /\ tasks' = tasks
          /\ AddTaskModalShown'
          /\ title' = title
          /\ pendingCalls' = pendingCalls]_vars

\* C13 witness: with onTaskCreate supplied, a title of blanks was submitted
\* and refused, and the form is still open.
C13_Witness ==
    /\ lastEvent.op = "submit"
    /\ hasOnTaskCreate
    /\ title = <<" ", " ">>
    /\ logged = <<"Title is required">>
    /\ out = <<>>
    /\ AddTaskModalShown

\* The drop of this step is a cross-column drop: the target resolves to a
\* status other than the dragged task's.
CrossColumnDropStep ==
    /\ dragging # NoDrag
    /\ lastEvent'.op = "dragEnd"
    /\ HasTask(dragging)
    /\ TargetStatus(lastEvent'.over) # Undefined
    /\ TargetStatus(lastEvent'.over) # TaskWithId(dragging).status

\* C14: with onTaskMove omitted a cross-column drop invokes nothing, leaves
\* the collection and the grouping as they were (the card stays in its
\* column), awaits nothing, and ends with no active task.
C14_DropWithoutCallbackChangesNothing ==
    [][(CrossColumnDropStep /\ ~hasOnTaskMove) =>
          /\ out' = <<>>
          /\ logged' = <<>>
          /\ tasks' = tasks
          /\ tasksByStatus' = tasksByStatus
          /\ pendingMoves' = pendingMoves
          /\ activeTask' = <<>>
          /\ dragging' = NoDrag]_vars

\* C14 witness: without onTaskMove, a task captured at drag start was dropped
\* on another column; nothing was invoked and the task has its status still.
C14_Witness ==
    /\ Dropped
    /\ ~hasOnTaskMove
    /\ lastEvent.captured # <<>>
    /\ lastEvent.over \in Statuses
    /\ HasTask(lastEvent.active)
    /\ TaskWithId(lastEvent.active).status # lastEvent.over
    /\ TaskWithId(lastEvent.active) \in Range(ColumnTasks(TaskWithId(lastEvent.active).status))
    /\ out = <<>>
    /\ activeTask = <<>>

\* The step passes the replacement task to onTaskUpdate once, when supplied,
\* and selects it unless the callback threw or its promise is pending.
ForwardsAndSelects(updated) ==
    /\ out' = IF hasOnTaskUpdate
               THEN <<[cb |-> "onTaskUpdate", task |-> updated]>>
               ELSE <<>>
    /\ selectedTask' =
          IF ~hasOnTaskUpdate THEN <<updated>>
          ELSE IF logged' # <<>> THEN selectedTask
          ELSE IF pendingUpdates' # pendingUpdates THEN selectedTask
          ELSE <<updated>>
    /\ pendingUpdates' \in {pendingUpdates, Append(pendingUpdates, updated)}

\* C15: an update request passes the whole replacement task to onTaskUpdate
\* once and leaves the collection alone; the selected task becomes the
\* updated task when the callback returns, is fulfilled, or is absent, and
\* keeps its value when the callback throws or is rejected.
C15_UpdateForwardsAndSelects ==
    [][/\ lastEvent'.op = "update" =>
            /\ tasks' = tasks
            /\ \E upd \in Updates :
                  ForwardsAndSelects(ApplyUpdate(editedTask[1], upd))
       /\ lastEvent'.op = "assigneeBlur" =>
            /\ tasks' = tasks
            /\ ForwardsAndSelects(editedTask[1])
       /\ lastEvent'.op = "updateResolved" =>
            /\ tasks' = tasks
            /\ out' = <<>>
            /\ \E i \in 1..Len(pendingUpdates) :
                  /\ selectedTask' = <<pendingUpdates[i]>>
                  /\ pendingUpdates' = RemoveAt(pendingUpdates, i)
       /\ lastEvent'.op = "updateRejected" =>
            /\ tasks' = tasks
            /\ out' = <<>>
            /\ selectedTask' = selectedTask]_vars

\* C15 witness: an update was rejected; the selected task is still the task
\* as opened, which is the collection's, and the view shows the edit.
C15_Witness ==
    /\ lastEvent.op = "updateRejected"
    /\ selectedTask # <<>>
    /\ selectedTask[1] \in Range(tasks)
    /\ editedTask # selectedTask

\* C15, the other outcome: an update was fulfilled and the selected task is
\* the updated one while the collection still holds the task as it was.
C15_WitnessFulfilled ==
    /\ lastEvent.op = "updateResolved"
    /\ selectedTask # <<>>
    /\ selectedTask[1] \notin Range(tasks)
    /\ HasTask(selectedTask[1].id)

\* C16 as claimed: a confirmed delete invokes onTaskDelete once with the id of
\* the task the view shows, a declined one invokes nothing and keeps the view
\* open, onTaskDelete is invoked by no other step, and neither changes the
\* collection.
C16_DeleteForwardsOpenedId ==
    [][/\ lastEvent'.op = "delete" =>
            /\ tasks' = tasks
            /\ out' = IF hasOnTaskDelete
                       THEN <<[cb |-> "onTaskDelete", taskId |-> editedTask[1].id]>>
                       ELSE <<>>
       /\ lastEvent'.op = "deleteDeclined" =>
            /\ tasks' = tasks
            /\ out' = <<>>
            /\ selectedTask' = selectedTask
       /\ (\E i \in 1..Len(out') : out'[i].cb = "onTaskDelete") =>
            lastEvent'.op = "delete"]_vars

\* C17 as claimed: after Escape is pressed neither modal is shown.
C17_EscapeClosesModals ==
    lastEvent.op = "escape" => (~TaskModalShown /\ ~AddTaskModalShown)

\* C18 as claimed: with renderTaskCard supplied every card of the board is its
\* result, and with renderHeader supplied the header is its result.
C18_RenderOverridesAreUsed ==
    /\ hasRenderTaskCard =>
          \A t \in ClickableTasks : RenderedCard(t).render = "renderTaskCard"
    /\ hasRenderHeader => RenderedHeader.render = "renderHeader"

\* The step is one the user takes on the create form or its buttons.
CreateUserStep ==
    lastEvent'.op \in {"addTask", "setTitle", "submit", "closeAddTaskModal", "escape"}

\* C19: while enableCreateTask is false no user step shows the create form
\* or invokes onTaskCreate.
C19_DisabledCreateShowsNoForm ==
    [][(~enableCreateTask /\ CreateUserStep) =>
          /\ ~AddTaskModalShown'
          /\ \A i \in 1..Len(out') : out'[i].cb # "onTaskCreate"]_vars

\* C19 witness: with enableCreateTask false a column's Add Task button was
\* clicked: the form is marked open and is not shown.
C19_Witness ==
    /\ ~enableCreateTask
    /\ lastEvent.op = "addTask"
    /\ isAddTaskModalOpen
    /\ addTaskStatus = "done"
    /\ ~AddTaskModalShown

\* C20 as claimed: whenever no drag is in progress (initially and after every
\* drag end, a cancel included, also while a move is pending), there is no
\* active task.
C20_IdleAfterEveryDragEnd ==
    dragging = NoDrag => activeTask = <<>>

(***************************************************************************)
(* Drag start, drop targets, removed tasks                                 *)
(***************************************************************************)
\* C21: a drag start captures the task of the unfiltered collection whose id
\* is the dragged card's id, whatever the filters show, and captures nothing
\* (the controller is Idle) when no task has that id.
C21_DragStartCapturesUnfilteredTask ==
    [][lastEvent'.op = "dragStart" =>
          /\ HasTask(lastEvent'.active) =>
                activeTask' = <<TaskWithId(lastEvent'.active)>>
          /\ ~HasTask(lastEvent'.active) => activeTask' = <<>>
          /\ tasks' = tasks]_vars

\* C21 witness: a drag started on a task that the filters hide, and the
\* task is captured.
C21_Witness ==
    /\ lastEvent.op = "dragStart"
    /\ activeTask # <<>>
    /\ activeTask[1].id = lastEvent.active
    /\ activeTask[1] \in Range(tasks)
    /\ activeTask[1] \notin Range(filteredTasks)

\* C21 witness: a drag started with the id of a task the host has removed,
\* and nothing is captured.
C21_WitnessIdle ==
    /\ lastEvent.op = "dragStart"
    /\ ~HasTask(lastEvent.active)
    /\ tasks # <<>>
    /\ activeTask = <<>>

\* C29: when the host has removed the dragged task since the drag started,
\* the drop invokes no callback whatever it is over, awaits nothing, and
\* leaves the controller Idle.
C29_DropOfRemovedTaskInvokesNothing ==
    [][(/\ lastEvent'.op = "dragEnd"
        /\ activeTask # <<>>
        /\ activeTask[1].id = dragging
        /\ ~HasTask(dragging))
       => /\ out' = <<>>
          /\ logged' = <<>>
          /\ pendingMoves' = pendingMoves
          /\ tasks' = tasks
          /\ activeTask' = <<>>
          /\ dragging' = NoDrag]_vars

\* C29 witness: t1 was captured at drag start, removed by the host, and then
\* dropped on another column with onTaskMove supplied: nothing was invoked.
C29_Witness ==
    /\ Dropped
    /\ hasOnTaskMove
    /\ lastEvent.active = "t1"
    /\ lastEvent.captured # <<>>
    /\ lastEvent.captured[1].id = "t1"
    /\ ~HasTask("t1")
    /\ lastEvent.over = "in-review"
    /\ lastEvent.captured[1].status # "in-review"
    /\ out = <<>>
    /\ activeTask = <<>>

(***************************************************************************)
(* Specification of the board with two configured columns, dragged and     *)
(* dropped on what it renders                                              *)
(***************************************************************************)
\* What the board registers as drop targets: each configured column
\* (useDroppable({ id })) and each card it shows (useSortable({ id: task.id })).
Droppables == Range(boardColumns) \cup CardIds

\* The columns prop of this board: the first two of the four columns.
TwoColumns == [given |-> TRUE, value |-> <<"todo", "in-progress">>]

InitColumns ==
    /\ tasks = InitTasks
    /\ hasOnTaskMove = TRUE
    /\ customColumns = TwoColumns
    /\ enableSearch = TRUE
    /\ enableFilters = TRUE
    /\ activeTask = <<>>
    /\ selectedTask = <<>>
    /\ searchQuery = <<>>
    /\ filterPriority = "all"
    /\ filterType = "all"
    /\ filterAssignee = "all"
    /\ viewMode = "board"
    /\ dragging = NoDrag
    /\ pendingMoves = 0
    /\ out = <<>>
    /\ logged = <<>>
    /\ lastEvent = NoEvent
    /\ InitModals

NextColumns ==
    \/ \E a \in CardIds : HandleDragStart(a)
    \/ \E o \in Droppables \cup {NoOver}, b \in Behaviours : HandleDragEnd(o, b)
    \/ DragCancel
    \/ MoveResolved
    \/ MoveRejected
    \/ \E id \in PoolIds, st \in Statuses : HostSetStatus(id, st)
    \/ \E id \in PoolIds : HostRemove(id)

SpecColumns == InitColumns /\ [][NextColumns]_vars

\* C22 as claimed: every newStatus passed to onTaskMove is the id of a
\* configured column and differs from the oldStatus of the same call.
C22_NewStatusIsConfiguredColumn ==
    \A i \in 1..Len(out) :
        out[i].cb = "onTaskMove" =>
            /\ out[i].newStatus \in Range(boardColumns)
            /\ out[i].newStatus # out[i].oldStatus

(***************************************************************************)
(* The task view's title and comment fields                                *)
(***************************************************************************)
\* At most this many comments are on a task.
MaxComments == 2

\* At most this many updates of the task view's fields are pending at once.
MaxPendingEdits == 1

\* What the user types into the task view's title field.
EditTitles == {<<>>, <<"o", "k">>}

\* What the user types into the comment field.
CommentTexts == {<<>>, <<" ">>, <<"o", "k", " ">>}

\* handleAddComment: the comment literal (its id and timestamp are left out:
\* the model has no clock).
NewComment(text) == [author |-> "Current User", content |-> text]

\* The shown title's onClick: setIsEditing(true); the title becomes an input
\* that takes the focus.
StartTitleEdit ==
    /\ TaskModalShown
    /\ ~isEditing
    /\ isEditing' = TRUE
    /\ out' = <<>> /\ logged' = <<>>
    /\ lastEvent' = [NoEvent EXCEPT !.op = "startTitleEdit"]
    /\ UNCHANGED <<restVars, newComment, crudProps, modalVars, tasks, propVars, activeTask,
                   selectedTask, filterVars, viewMode, dragging, pendingMoves>>

\* The title input's onChange: setEditedTask({ ...editedTask, title })
SetEditedTitle(v) ==
    /\ TaskModalShown
    /\ isEditing
    /\ editedTask[1].title # v
    /\ editedTask' = <<[editedTask[1] EXCEPT !.title = v]>>
    /\ out' = <<>> /\ logged' = <<>>
    /\ lastEvent' = [NoEvent EXCEPT !.op = "setEditedTitle"]
    /\ UNCHANGED <<restVars, viewVars, crudProps, isAddTaskModalOpen, addTaskStatus, title,
                   pendingUpdates, pendingCalls, tasks, propVars, activeTask,
                   selectedTask, filterVars, viewMode, dragging, pendingMoves>>

\* The title input's onBlur: handleUpdate({ title: editedTask.title }) and
\* setIsEditing(false).
HandleTitleBlur(b) ==
    /\ TaskModalShown
    /\ isEditing
    /\ ForwardUpdate(editedTask[1], b)
    /\ isEditing' = FALSE
    /\ lastEvent' = [NoEvent EXCEPT !.op = "titleBlur"]
    /\ UNCHANGED <<restVars, newComment, crudProps, isAddTaskModalOpen, addTaskStatus, title,
                   pendingCalls, tasks, propVars, activeTask, filterVars, viewMode,
                   dragging, pendingMoves>>

\* The comment input's onChange: setNewComment(e.target.value)
SetNewComment(v) ==
    /\ TaskModalShown
    /\ newComment # v
    /\ newComment' = v
    /\ out' = <<>> /\ logged' = <<>>
    /\ lastEvent' = [NoEvent EXCEPT !.op = "setNewComment"]
    /\ UNCHANGED <<restVars, isEditing, crudProps, modalVars, tasks, propVars, activeTask,
                   selectedTask, filterVars, viewMode, dragging, pendingMoves>>

\* handleAddComment (Enter in the comment input, or its button): nothing for
\* a comment that is empty after trimming, else
\* handleUpdate({ comments: [...editedTask.comments, comment] }) and
\* setNewComment('').
HandleAddComment(b) ==
    /\ TaskModalShown
    /\ IF Trim(newComment) = <<>>
       THEN /\ b = "returns"
            /\ out' = <<>> /\ logged' = <<>>
            /\ UNCHANGED <<newComment, editedTask, selectedTask, pendingUpdates>>
       ELSE /\ Len(editedTask[1].comments) < MaxComments
            /\ ForwardUpdate([editedTask[1] EXCEPT
                                 !.comments = Append(@, NewComment(newComment))], b)
            /\ newComment' = <<>>
    /\ lastEvent' = [NoEvent EXCEPT !.op = "addComment"]
    /\ UNCHANGED <<restVars, isEditing, crudProps, isAddTaskModalOpen, addTaskStatus, title,
                   pendingCalls, tasks, propVars, activeTask, filterVars, viewMode,
                   dragging, pendingMoves>>

\* The title input has the focus while it is rendered: any other control of
\* the view is reached only after its onBlur has run.
FocusOutsideTitle == ~isEditing

(***************************************************************************)
(* Specification of the task view's fields with the host                   *)
(***************************************************************************)
\* The board as mounted on one task, every callback supplied.
InitEdit ==
    /\ tasks = <<PoolTask("t1", "todo")>>
    /\ hasOnTaskMove = TRUE
    /\ customColumns = [given |-> FALSE, value |-> <<>>]
    /\ enableSearch = TRUE
    /\ enableFilters = TRUE
    /\ activeTask = <<>>
    /\ selectedTask = <<>>
    /\ searchQuery = <<>>
    /\ filterPriority = "all"
    /\ filterType = "all"
    /\ filterAssignee = "all"
    /\ viewMode = "board"
    /\ dragging = NoDrag
    /\ pendingMoves = 0
    /\ out = <<>>
    /\ logged = <<>>
    /\ lastEvent = NoEvent
    /\ InitModals

\* The behaviours of onTaskUpdate that the pending updates leave room for.
EditBehaviours ==
    IF Len(pendingUpdates) < MaxPendingEdits THEN Behaviours
    ELSE Behaviours \ {"promise"}

\* The title field: open, edit the title, leave the field, close, and the
\* host applying the updates and, once, a move of the task.
NextEdit ==
    \/ \E t \in Range(tasks) : HandleTaskClick(t)
    \/ FocusOutsideTitle /\ CloseTaskModal
    \/ StartTitleEdit
    \/ \E v \in EditTitles : SetEditedTitle(v)
    \/ \E b \in EditBehaviours : HandleTitleBlur(b)
    \/ \E i \in 1..MaxPendingEdits : UpdateResolved(i)
    \/ \E i \in 1..MaxPendingEdits : UpdateRejected(i)
    \/ \E u \in Range(pendingUpdates)
                  \cup {o.task : o \in {c \in Range(out) : c.cb = "onTaskUpdate"}} :
          HostReplace(u)
    \/ HostSetStatus("t1", "done")

SpecEdit == InitEdit /\ [][NextEdit]_vars

\* The comment field and the selects: open, type a comment, add it, change a
\* field, close, and the host applying the updates.
NextComments ==
    \/ \E t \in Range(tasks) : HandleTaskClick(t)
    \/ CloseTaskModal
    \/ \E upd \in Updates, b \in EditBehaviours :
          HandleTaskUpdate(upd, b)
    \/ \E v \in CommentTexts : SetNewComment(v)
    \/ \E b \in EditBehaviours : HandleAddComment(b)
    \/ \E i \in 1..MaxPendingEdits : UpdateResolved(i)
    \/ \E i \in 1..MaxPendingEdits : UpdateRejected(i)
    \/ \E u \in Range(pendingUpdates)
                  \cup {o.task : o \in {c \in Range(out) : c.cb = "onTaskUpdate"}} :
          HostReplace(u)

SpecComments == InitEdit /\ [][NextComments]_vars

\* The last step sent an update from the task view.
ViewUpdateStep ==
    lastEvent'.op \in {"update", "assigneeBlur", "titleBlur", "addComment"}



(***************************************************************************)
(* Properties of the task view's requests                                  *)
(***************************************************************************)
\* C23 as claimed: every task passed to onTaskCreate or onTaskUpdate has a
\* title that is non-empty after trimming.
C23_ForwardedTitlesAreNonEmpty ==
    \A i \in 1..Len(out) :
        out[i].cb \in {"onTaskCreate", "onTaskUpdate"} =>
            Trim(out[i].task.title) # <<>>

\* s is a prefix of t.
IsPrefix(s, t) == Len(s) <= Len(t) /\ SubSeq(t, 1, Len(s)) = s

\* C24: comments are append-only in the task view.  The view starts from
\* the task it was opened on; while it stays mounted the comments it holds
\* only grow at the end, whatever completes meanwhile; every request carries
\* the task the view then holds; and adding a comment that is empty after
\* trimming sends nothing and changes nothing, any other comment is appended.
C24_CommentsAreAppendOnly ==
    [][/\ (editedTask = <<>> /\ editedTask' # <<>>) => editedTask' = selectedTask'
       /\ (editedTask # <<>> /\ editedTask' # <<>>) =>
             IsPrefix(editedTask[1].comments, editedTask'[1].comments)
       /\ (ViewUpdateStep /\ out' # <<>>) =>
             /\ Len(out') = 1
             /\ out'[1].cb = "onTaskUpdate"
             /\ out'[1].task = editedTask'[1]
       /\ (lastEvent'.op = "addComment" /\ Trim(newComment) = <<>>) =>
             /\ out' = <<>>
             /\ editedTask' = editedTask
             /\ pendingUpdates' = pendingUpdates
       /\ (lastEvent'.op = "addComment" /\ Trim(newComment) # <<>>) =>
             /\ editedTask'[1].comments =
                   Append(editedTask[1].comments, NewComment(newComment))
             /\ out' = UpdateCalls(editedTask'[1], hasOnTaskUpdate)]_vars

\* C24 witness: a second comment was added while the request of the first is
\* still pending, and the request carries both, the first one first.
C24_Witness ==
    /\ lastEvent.op = "addComment"
    /\ out # <<>>
    /\ Len(out[1].task.comments) = 2
    /\ pendingUpdates # <<>>
    /\ Len(pendingUpdates[1].comments) = 1
    /\ IsPrefix(pendingUpdates[1].comments, out[1].task.comments)

\* C24 witness: a comment of one space was submitted, and nothing was sent.
C24_WitnessEmpty ==
    /\ lastEvent.op = "addComment"
    /\ newComment = <<" ">>
    /\ out = <<>>
    /\ editedTask # <<>>
    /\ Len(editedTask[1].comments) = 1

\* C26 as claimed: the task view, once closed, is shown again only by a
\* click on a task.
C26_ClosedViewStaysClosed ==
    [][(~TaskModalShown /\ TaskModalShown') => lastEvent'.op = "taskClick"]_vars

\* The fields of a task that the title field does not edit.
FieldsNotEdited == {"status", "priority", "type", "assignee", "description", "comments"}

\* C27 as claimed: a request sent from the task view keeps the id of the
\* opened task, and every field the user did not edit there has the value
\* it has in the host's collection when the request is sent.
C27_UpdateCarriesCurrentFields ==
    [][(ViewUpdateStep /\ out' # <<>> /\ HasTask(editedTask[1].id)) =>
          /\ out'[1].task.id = editedTask[1].id
          /\ \A f \in FieldsNotEdited :
                out'[1].task[f] = TaskWithId(editedTask[1].id)[f]]_vars


(***************************************************************************)
(* Specification of the assignee filter with a host that reassigns tasks   *)
(***************************************************************************)
\* The assignees the host gives a task: none, the empty string, a name, and
\* the two names that are also values of the select's fixed options.
AssigneeNames == {Undefined, "", "ann", "all", "unassigned"}

\* The host replaces a task by one with another assignee.
HostSetAssignee(id, a) ==
    /\ Find(tasks, id) # <<>>
    /\ Find(tasks, id)[1].assignee # a
    /\ tasks' = ReplaceTask(tasks, [Find(tasks, id)[1] EXCEPT !.assignee = a])
    /\ out' = <<>> /\ logged' = <<>> /\ lastEvent' = NoEvent
    /\ UNCHANGED <<restVars, viewVars, crudProps, modalVars, propVars, activeTask, selectedTask,
                   filterVars, viewMode, dragging, pendingMoves>>

\* The board as mounted on three tasks: one assigned, one without assignee,
\* one with the empty string as assignee; nothing is selected.
InitAssignees ==
    /\ tasks = <<PoolTask("t1", "todo"), PoolTask("T2", "todo"), PoolTask("done", "done")>>
    /\ hasOnTaskMove = TRUE
    /\ customColumns = [given |-> FALSE, value |-> <<>>]
    /\ enableSearch = TRUE
    /\ enableFilters = TRUE
    /\ activeTask = <<>>
    /\ selectedTask = <<>>
    /\ searchQuery = <<>>
    /\ filterPriority = "all"
    /\ filterType = "all"
    /\ filterAssignee = "all"
    /\ viewMode = "board"
    /\ dragging = NoDrag
    /\ pendingMoves = 0
    /\ out = <<>>
    /\ logged = <<>>
    /\ lastEvent = NoEvent
    /\ InitModals

NextAssignees ==
    \/ \E a \in AssigneeNames : SetFilterAssignee(a)
    \/ \E id \in {"t1", "T2", "done"}, a \in AssigneeNames : HostSetAssignee(id, a)

SpecAssignees == InitAssignees /\ [][NextAssignees]_vars

\* C25: the options of the assignee filter are the assignee values of the
\* collection that are neither absent nor empty, each listed once.
C25_AssigneeOptionsAreDistinctNonEmpty ==
    /\ Range(assignees) = {t.assignee : t \in Range(tasks)} \ {Undefined, ""}
    /\ \A i, j \in 1..Len(assignees) : assignees[i] = assignees[j] => i = j

\* C25 witness: two tasks have the same assignee and the third has the empty
\* string; the one name is the only option.
C25_Witness ==
    /\ tasks[1].assignee = "ann"
    /\ tasks[2].assignee = ""
    /\ tasks[3].assignee = "ann"
    /\ assignees = <<"ann">>

\* C28 as claimed: selecting an offered assignee name, with filters enabled
\* and neither search nor another filter active, shows exactly the tasks
\* whose assignee is that name.
C28_SelectedNameShowsItsTasks ==
    [][(/\ filterAssignee' # filterAssignee
        /\ filterAssignee' \in Range(assignees)
        /\ enableFilters
        /\ searchQuery = <<>> /\ filterPriority = "all" /\ filterType = "all")
       => filteredTasks' = SelectSeq(tasks, LAMBDA t : t.assignee = filterAssignee')]_vars


(***************************************************************************)
(* The example host useTasksWithRestAPI (src/src/api-examples.ts): the     *)
(* functions it returns, passed to the board as its callbacks              *)
(***************************************************************************)
\* At most this many calls of the host's functions are made.
MaxCalls == 3

\* The calls made so far.
CallCount == Len(requests) + Len(settled)

\* A call waiting at its await: what the function holds across it.  task is
\* the task passed (createTask, updateTask), old the task found before the
\* optimistic change (updateTask's oldTask, deleteTask's deletedTask).
Request(kind, taskId, newStatus, oldStatus, task, old) ==
    [n |-> CallCount + 1, kind |-> kind, taskId |-> taskId,
     newStatus |-> newStatus, oldStatus |-> oldStatus, task |-> task, old |-> old]

\* What GET /api/tasks answers with.
ServerCollections == {<<>>, InitTasks}

\* What the server answers a POST or PUT of a task with: the task as sent, or
\* as the server stored it.
ServerTasks(sent) == {sent, [sent EXCEPT !.priority = "highest"]}

\* The message of the error a function's catch block sees: its own for a
\* response that is not ok, the browser's for a fetch that failed.
FailureMessages(kind) ==
    {"Failed to fetch",
     CASE kind = "load" -> "Failed to fetch tasks"
       [] kind = "create" -> "Failed to create task"
       [] kind = "update" -> "Failed to update task"
       [] kind = "delete" -> "Failed to delete task"
       [] OTHER -> "Failed to move task"}

\* loadTasks up to its await: setLoading(true) and the request is sent.
LoadTasks ==
    /\ CallCount < MaxCalls
    /\ loading' = TRUE
    /\ requests' = Append(requests,
                          Request("load", Undefined, Undefined, Undefined, <<>>, <<>>))
    /\ out' = <<>> /\ logged' = <<>>
    /\ lastEvent' = [NoEvent EXCEPT !.op = "loadTasks"]
    /\ UNCHANGED <<tasks, settled, hostError, viewVars, crudProps, modalVars, propVars,
                   activeTask, selectedTask, filterVars, viewMode, dragging,
                   pendingMoves>>

\* loadTasks after its awaits, response.ok: setTasks(data); finally
\* setLoading(false).
LoadTasksOk(i, data) ==
    /\ i \in 1..Len(requests)
    /\ requests[i].kind = "load"
    /\ requests' = RemoveAt(requests, i)
    /\ settled' = Append(settled, [call |-> requests[i], ok |-> TRUE])
    /\ tasks' = data
    /\ loading' = FALSE
    /\ out' = <<>> /\ logged' = <<>>
    /\ lastEvent' = [NoEvent EXCEPT !.op = "loadTasksOk"]
    /\ UNCHANGED <<hostError, viewVars, crudProps, modalVars, propVars,
                   activeTask, selectedTask, filterVars, viewMode, dragging,
                   pendingMoves>>

\* loadTasks after its await, the fetch failed or the response is not ok: the
\* catch block sets the error; finally setLoading(false).
LoadTasksFailed(i, msg) ==
    /\ i \in 1..Len(requests)
    /\ requests[i].kind = "load"
    /\ requests' = RemoveAt(requests, i)
    /\ settled' = Append(settled, [call |-> requests[i], ok |-> FALSE])
    /\ hostError' = msg
    /\ loading' = FALSE
    /\ out' = <<>> /\ logged' = <<>>
    /\ lastEvent' = [NoEvent EXCEPT !.op = "loadTasksFailed"]
    /\ UNCHANGED <<tasks, viewVars, crudProps, modalVars, propVars,
                   activeTask, selectedTask, filterVars, viewMode, dragging,
                   pendingMoves>>

\* createTask up to its await: the task is appended and the request is sent.
\* The board's ids are task-<Date.now()>, so the task passed has an id that
\* no held task and no call in flight has.
CreateTask(newTask) ==
    /\ CallCount < MaxCalls
    /\ Find(tasks, newTask.id) = <<>>
    /\ \A r \in Range(requests) : r.taskId # newTask.id
    /\ tasks' = Append(tasks, newTask)
    /\ requests' = Append(requests,
                          Request("create", newTask.id, Undefined, Undefined,
                                  <<newTask>>, <<>>))
    /\ out' = <<>> /\ logged' = <<>>
    /\ lastEvent' = [NoEvent EXCEPT !.op = "createTask"]
    /\ UNCHANGED <<settled, hostError, loading, viewVars, crudProps, modalVars, propVars,
                   activeTask, selectedTask, filterVars, viewMode, dragging,
                   pendingMoves>>

\* createTask after its awaits, response.ok: the task with the id passed is
\* replaced by the server's createdTask.
CreateTaskOk(i, createdTask) ==
    /\ i \in 1..Len(requests)
    /\ requests[i].kind = "create"
    /\ requests' = RemoveAt(requests, i)
    /\ settled' = Append(settled, [call |-> requests[i], ok |-> TRUE])
    /\ tasks' = [k \in 1..Len(tasks) |->
                    IF tasks[k].id = requests[i].taskId THEN createdTask ELSE tasks[k]]
    /\ out' = <<>> /\ logged' = <<>>
    /\ lastEvent' = [NoEvent EXCEPT !.op = "createTaskOk"]
    /\ UNCHANGED <<hostError, loading, viewVars, crudProps, modalVars, propVars,
                   activeTask, selectedTask, filterVars, viewMode, dragging,
                   pendingMoves>>

\* createTask after its await, the fetch failed or the response is not ok:
\* the catch block filters the task out, sets the error and rethrows.
CreateTaskFailed(i, msg) ==
    /\ i \in 1..Len(requests)
    /\ requests[i].kind = "create"
    /\ requests' = RemoveAt(requests, i)
    /\ settled' = Append(settled, [call |-> requests[i], ok |-> FALSE])
    /\ tasks' = RemoveTask(tasks, requests[i].taskId)
    /\ hostError' = msg
    /\ out' = <<>> /\ logged' = <<>>
    /\ lastEvent' = [NoEvent EXCEPT !.op = "createTaskFailed"]
    /\ UNCHANGED <<loading, viewVars, crudProps, modalVars, propVars,
                   activeTask, selectedTask, filterVars, viewMode, dragging,
                   pendingMoves>>

\* updateTask up to its await: oldTask is looked up, the task is replaced
\* and the request is sent.
UpdateTask(updatedTask) ==
    /\ CallCount < MaxCalls
    /\ tasks' = ReplaceTask(tasks, updatedTask)
    /\ requests' = Append(requests,
                          Request("update", updatedTask.id, Undefined, Undefined,
                                  <<updatedTask>>, Find(tasks, updatedTask.id)))
    /\ out' = <<>> /\ logged' = <<>>
    /\ lastEvent' = [NoEvent EXCEPT !.op = "updateTask"]
    /\ UNCHANGED <<settled, hostError, loading, viewVars, crudProps, modalVars, propVars,
                   activeTask, selectedTask, filterVars, viewMode, dragging,
                   pendingMoves>>

\* updateTask after its awaits, response.ok: the task with the id of the
\* server's serverTask is replaced by it.
UpdateTaskOk(i, serverTask) ==
    /\ i \in 1..Len(requests)
    /\ requests[i].kind = "update"
    /\ requests' = RemoveAt(requests, i)
    /\ settled' = Append(settled, [call |-> requests[i], ok |-> TRUE])
    /\ tasks' = ReplaceTask(tasks, serverTask)
    /\ out' = <<>> /\ logged' = <<>>
    /\ lastEvent' = [NoEvent EXCEPT !.op = "updateTaskOk"]
    /\ UNCHANGED <<hostError, loading, viewVars, crudProps, modalVars, propVars,
                   activeTask, selectedTask, filterVars, viewMode, dragging,
                   pendingMoves>>

\* updateTask after its await, the fetch failed or the response is not ok:
\* the catch block puts oldTask back when one was found, sets the error and
\* rethrows.
UpdateTaskFailed(i, msg) ==
    /\ i \in 1..Len(requests)
    /\ requests[i].kind = "update"
    /\ requests' = RemoveAt(requests, i)
    /\ settled' = Append(settled, [call |-> requests[i], ok |-> FALSE])
    /\ tasks' = IF requests[i].old = <<>> THEN tasks
                 ELSE [k \in 1..Len(tasks) |->
                          IF tasks[k].id = requests[i].taskId THEN requests[i].old[1]
                          ELSE tasks[k]]
    /\ hostError' = msg
    /\ out' = <<>> /\ logged' = <<>>
    /\ lastEvent' = [NoEvent EXCEPT !.op = "updateTaskFailed"]
    /\ UNCHANGED <<loading, viewVars, crudProps, modalVars, propVars,
                   activeTask, selectedTask, filterVars, viewMode, dragging,
                   pendingMoves>>

\* deleteTask up to its await: deletedTask is looked up, the task is
\* filtered out and the request is sent.
DeleteTask(taskId) ==
    /\ CallCount < MaxCalls
    /\ tasks' = RemoveTask(tasks, taskId)
    /\ requests' = Append(requests,
                          Request("delete", taskId, Undefined, Undefined,
                                  <<>>, Find(tasks, taskId)))
    /\ out' = <<>> /\ logged' = <<>>
    /\ lastEvent' = [NoEvent EXCEPT !.op = "deleteTask"]
    /\ UNCHANGED <<settled, hostError, loading, viewVars, crudProps, modalVars, propVars,
                   activeTask, selectedTask, filterVars, viewMode, dragging,
                   pendingMoves>>

\* deleteTask after its await, response.ok: the call completes.
DeleteTaskOk(i) ==
    /\ i \in 1..Len(requests)
    /\ requests[i].kind = "delete"
    /\ requests' = RemoveAt(requests, i)
    /\ settled' = Append(settled, [call |-> requests[i], ok |-> TRUE])
    /\ out' = <<>> /\ logged' = <<>>
    /\ lastEvent' = [NoEvent EXCEPT !.op = "deleteTaskOk"]
    /\ UNCHANGED <<tasks, hostError, loading, viewVars, crudProps, modalVars, propVars,
                   activeTask, selectedTask, filterVars, viewMode, dragging,
                   pendingMoves>>

\* deleteTask after its await, the fetch failed or the response is not ok:
\* the catch block appends deletedTask when one was found, sets the error and
\* rethrows.
DeleteTaskFailed(i, msg) ==
    /\ i \in 1..Len(requests)
    /\ requests[i].kind = "delete"
    /\ requests' = RemoveAt(requests, i)
    /\ settled' = Append(settled, [call |-> requests[i], ok |-> FALSE])
    /\ tasks' = IF requests[i].old = <<>> THEN tasks
                 ELSE Append(tasks, requests[i].old[1])
    /\ hostError' = msg
    /\ out' = <<>> /\ logged' = <<>>
    /\ lastEvent' = [NoEvent EXCEPT !.op = "deleteTaskFailed"]
    /\ UNCHANGED <<loading, viewVars, crudProps, modalVars, propVars,
                   activeTask, selectedTask, filterVars, viewMode, dragging,
                   pendingMoves>>

\* moveTask up to its await: the task is looked up (a call for a task that
\* is not in the collection returns at once), the move is applied to the
\* collection (the updatedAt stamp is left out: the model has no clock)
\* and the request is sent.  The board passes the status the task has in the
\* collection as oldStatus, and a newStatus that differs from it.
MoveTask(taskId, newStatus) ==
    /\ CallCount < MaxCalls
    /\ Find(tasks, taskId) # <<>>
    /\ LET task == Find(tasks, taskId)[1]
       IN  /\ newStatus # task.status
           /\ tasks' = ReplaceTask(tasks, [task EXCEPT !.status = newStatus])
           /\ requests' = Append(requests,
                                 Request("move", taskId, newStatus, task.status,
                                         <<>>, <<>>))
    /\ out' = <<>> /\ logged' = <<>>
    /\ lastEvent' = [NoEvent EXCEPT !.op = "moveTask"]
    /\ UNCHANGED <<settled, hostError, loading, viewVars, crudProps, modalVars, propVars,
                   activeTask, selectedTask, filterVars, viewMode, dragging,
                   pendingMoves>>

\* moveTask after its await, response.ok: the call completes.
MoveRequestOk(i) ==
    /\ i \in 1..Len(requests)
    /\ requests[i].kind = "move"
    /\ requests' = RemoveAt(requests, i)
    /\ settled' = Append(settled, [call |-> requests[i], ok |-> TRUE])
    /\ out' = <<>> /\ logged' = <<>>
    /\ lastEvent' = [NoEvent EXCEPT !.op = "moveRequestOk"]
    /\ UNCHANGED <<tasks, hostError, loading, viewVars, crudProps, modalVars, propVars,
                   activeTask, selectedTask, filterVars, viewMode, dragging,
                   pendingMoves>>

\* moveTask after its await, the fetch failed or the response is not ok: the
\* catch block sets the task's status to oldStatus, sets the error to the
\* message and rethrows.
MoveRequestFailed(i, msg) ==
    /\ i \in 1..Len(requests)
    /\ requests[i].kind = "move"
    /\ requests' = RemoveAt(requests, i)
    /\ settled' = Append(settled, [call |-> requests[i], ok |-> FALSE])
    /\ tasks' = SetStatus(tasks, requests[i].taskId, requests[i].oldStatus)
    /\ hostError' = msg
    /\ out' = <<>> /\ logged' = <<>>
    /\ lastEvent' = [NoEvent EXCEPT !.op = "moveRequestFailed"]
    /\ UNCHANGED <<loading, viewVars, crudProps, modalVars, propVars,
                   activeTask, selectedTask, filterVars, viewMode, dragging,
                   pendingMoves>>

\* The host as mounted, its collection loaded with two tasks.
InitRest ==
    /\ tasks = InitTasks
    /\ hasOnTaskMove = TRUE
    /\ customColumns = [given |-> FALSE, value |-> <<>>]
    /\ enableSearch = TRUE
    /\ enableFilters = TRUE
    /\ activeTask = <<>>
    /\ selectedTask = <<>>
    /\ searchQuery = <<>>
    /\ filterPriority = "all"
    /\ filterType = "all"
    /\ filterAssignee = "all"
    /\ viewMode = "board"
    /\ dragging = NoDrag
    /\ pendingMoves = 0
    /\ out = <<>>
    /\ logged = <<>>
    /\ lastEvent = NoEvent
    /\ InitModals

\* The tasks the board passes to onTaskUpdate: a held task, or one the host
\* has removed meanwhile, with an option picked in the task view.
SentUpdates ==
    {ApplyUpdate(t, upd) : t \in Range(tasks) \cup Range(InitTasks), upd \in Updates}

\* The host's functions as the board and the page call them, and the
\* server's answers.
NextRest ==
    \/ LoadTasks
    \/ \E i \in 1..MaxCalls, data \in ServerCollections : LoadTasksOk(i, data)
    \/ \E i \in 1..MaxCalls, msg \in FailureMessages("load") : LoadTasksFailed(i, msg)
    \/ \E st \in {"todo"} : CreateTask(NewTask(<<"B">>, st))
    \/ \E i \in 1..MaxCalls :
          \E createdTask \in IF i \in 1..Len(requests) /\ requests[i].kind = "create"
                              THEN ServerTasks(requests[i].task[1]) ELSE {} :
             CreateTaskOk(i, createdTask)
    \/ \E i \in 1..MaxCalls, msg \in FailureMessages("create") : CreateTaskFailed(i, msg)
    \/ \E u \in SentUpdates : UpdateTask(u)
    \/ \E i \in 1..MaxCalls :
          \E serverTask \in IF i \in 1..Len(requests) /\ requests[i].kind = "update"
                             THEN ServerTasks(requests[i].task[1]) ELSE {} :
             UpdateTaskOk(i, serverTask)
    \/ \E i \in 1..MaxCalls, msg \in FailureMessages("update") : UpdateTaskFailed(i, msg)
    \/ \E id \in PoolIds : DeleteTask(id)
    \/ \E i \in 1..MaxCalls : DeleteTaskOk(i)
    \/ \E i \in 1..MaxCalls, msg \in FailureMessages("delete") : DeleteTaskFailed(i, msg)
    \/ \E id \in PoolIds, st \in Statuses : MoveTask(id, st)
    \/ \E i \in 1..MaxCalls : MoveRequestOk(i)
    \/ \E i \in 1..MaxCalls, msg \in FailureMessages("move") : MoveRequestFailed(i, msg)

SpecRest == InitRest /\ [][NextRest]_vars

\* Two completed calls moved the same task and overlapped: the later call
\* was made while the earlier one was in flight, and the earlier one's
\* request failed after the later one's had succeeded.
EarlierFailedAfterLaterSucceeded(i, j) ==
    /\ i < j
    /\ settled[i].call.kind = "move"
    /\ settled[j].call.kind = "move"
    /\ settled[i].ok
    /\ ~settled[j].ok
    /\ settled[j].call.n < settled[i].call.n
    /\ settled[j].call.taskId = settled[i].call.taskId

\* The call is one of the two, or one that leaves the task alone: neither a
\* load of the collection nor a call for the task.
LeavesTaskTo(c, taskId) == c.kind # "load" /\ c.taskId # taskId

\* C30 as claimed: when the earlier of two overlapping moves of a task fails
\* after the later one succeeded, and no other call changed that task, then
\* once both have completed the task has the status the successful move set.
C30_RollbackKeepsLaterMove ==
    \A i, j \in 1..Len(settled) :
        (/\ EarlierFailedAfterLaterSucceeded(i, j)
         /\ \A r \in Range(requests) : LeavesTaskTo(r, settled[i].call.taskId)
         /\ \A k \in 1..Len(settled) :
               k \in {i, j} \/ LeavesTaskTo(settled[k].call, settled[i].call.taskId))
        => \E t \in Range(tasks) :
              /\ t.id = settled[i].call.taskId
              /\ t.status = settled[i].call.newStatus

====
